---- MODULE Spec2Model ----
(***************************************************************************)
(* Model of the Fallout game engine (cmd/templates/scripts/fallout):       *)
(* the check resolver (dice.py), the mode state machine and turn advance   *)
(* (util.py, world.py), enemy tracking (enemy.py), player resources        *)
(* (player.py) and consumables / rest (items.py).                          *)
(*                                                                         *)
(* Every command loads the JSON document, mutates it and saves it. The     *)
(* document is the variable `state`; a command is an operator from the     *)
(* loaded document and its arguments to the pair (saved document, printed  *)
(* JSON result). `input` holds the arguments of the last command, `result` *)
(* the JSON object it printed.                                             *)
(***************************************************************************)
EXTENDS Integers, Sequences, FiniteSets, TLC

VARIABLES state, input, result

vars == <<state, input, result>>

(***************************************************************************)
(* Generic helpers                                                         *)
(***************************************************************************)
Max(a, b) == IF a >= b THEN a ELSE b

Min(a, b) == IF a <= b THEN a ELSE b

Range(s) == {s[i] : i \in 1..Len(s)}

\* the empty dict {}
EmptyDict == [x \in {} |-> 0]

\* dict without key k
DictDel(d, k) == [x \in (DOMAIN d) \ {k} |-> d[x]]

\* dict with d[k] = v (insert or overwrite)
DictPut(d, k, v) == [x \in (DOMAIN d) \cup {k} |-> IF x = k THEN v ELSE d[x]]

\* dict.get(k, default)
DictGet(d, k, default) == IF k \in DOMAIN d THEN d[k] ELSE default

RECURSIVE SeqSum(_)
SeqSum(s) == IF s = <<>> THEN 0 ELSE Head(s) + SeqSum(Tail(s))

\* all sequences over S of length lo..hi
SeqsOf(S, lo, hi) == UNION {[1..n -> S] : n \in lo..hi}

(***************************************************************************)
(* util.py: constants                                                      *)
(***************************************************************************)
ALL_SKILLS ==
    {"Barter", "Lockpick", "Medicine", "Melee", "Repair",
     "Science", "Small Guns", "Sneak", "Speech", "Survival"}

SPECIAL_ATTRS == {"STR", "PER", "END", "CHA", "INT", "AGI", "LCK"}

\* (threshold, penalties), first match wins
RAD_PENALTIES ==
    << [threshold |-> 1000,
        penalties |-> [STR |-> -4, PER |-> -3, END |-> -4, AGI |-> -3, LCK |-> -3]],
       [threshold |-> 800,
        penalties |-> [STR |-> -3, PER |-> -2, END |-> -3, AGI |-> -2]],
       [threshold |-> 600,
        penalties |-> [STR |-> -2, PER |-> -1, END |-> -2, AGI |-> -1]],
       [threshold |-> 400,
        penalties |-> [STR |-> -1, END |-> -1]],
       [threshold |-> 200,
        penalties |-> [END |-> -1]] >>

(***************************************************************************)
(* The JSON result a command prints. Every command fills the fields it     *)
(* reports; the others keep the values of NoResult (an absent JSON key).   *)
(***************************************************************************)
NoTransition == <<>>

NoResult ==
    [cmd |-> "none", ok |-> FALSE, error |-> "", unstructured |-> FALSE,
     mode |-> "", mode_changed |-> NoTransition,
     combat_round |-> -1, turn |-> -1, time_of_day |-> "",
     weather_changed |-> "", random_event |-> FALSE,
     deaths |-> <<>>, expired_effects |-> <<>>, active_effects |-> <<>>,
     enemies_cleared |-> {}, enemies_alive |-> {},
     killed |-> FALSE, hp_before |-> -1, hp_after |-> -1, amount |-> 0,
     hit |-> FALSE, critical |-> FALSE, fumble |-> FALSE,
     damage_dice |-> <<>>, total_damage |-> -1, target_down |-> FALSE,
     tier |-> -1, pending |-> {}, all_acted |-> FALSE,
     leader |-> "", players |-> <<>>, leader_target |-> -1,
     dice |-> <<>>, leader_dice |-> <<>>, leader_successes |-> -1,
     helpers |-> <<>>, total_successes |-> -1, crits |-> -1,
     complications |-> -1, passed |-> FALSE, excess_ap |-> -1,
     pool |-> -1, ap_spent |-> 0,
     ap_before |-> -1, ap_after |-> -1, ap_change |-> 0]

\* util.error: an error payload; the caller returns without saving
Error(cmdname, msg) == [NoResult EXCEPT !.cmd = cmdname, !.error = msg]

\* an exception no handler catches: a traceback instead of a JSON payload;
\* nothing is saved
Crash(st, cmdname, msg) ==
    [state |-> st,
     result |-> [NoResult EXCEPT !.cmd = cmdname, !.error = msg, !.unstructured = TRUE]]

\* what a command hands back: the document on disk afterwards and the output
Out(st, res) == [state |-> st, result |-> res]

\* early return with an error: the loaded document is dropped, the file is as it was
Fail(st, cmdname, msg) == Out(st, Error(cmdname, msg))

(***************************************************************************)
(* world.py: cmd_init                                                      *)
(***************************************************************************)
cmd_init ==
    [chapter |-> 1,
     chapter_start_turn |-> 0,
     turn |-> 0,
     time_of_day |-> "Early Morning",
     weather |-> "Clear",
     players |-> EmptyDict,
     enemies |-> EmptyDict,
     mode |-> "exploration",
     combat_round |-> 0,
     turn_actions |-> {}]

(***************************************************************************)
(* util.py: get_effective_special                                          *)
(***************************************************************************)
\* index of the first radiation tier that rads meets, 0 when none
RECURSIVE FirstTierFrom(_, _)
FirstTierFrom(rads, i) ==
    IF i > Len(RAD_PENALTIES) THEN 0
    ELSE IF rads >= RAD_PENALTIES[i].threshold THEN i
    ELSE FirstTierFrom(rads, i + 1)

\* penalties that pile up: the deltas of every tier that rads meets
RadDelta_cumulative(rads, attr) ==
    LET f[i \in 0..Len(RAD_PENALTIES)] ==
            IF i = 0 THEN 0
            ELSE f[i - 1] + (IF rads >= RAD_PENALTIES[i].threshold
                             THEN DictGet(RAD_PENALTIES[i].penalties, attr, 0) ELSE 0)
    IN  f[Len(RAD_PENALTIES)]

RadDelta(rads, attr) ==
    LET i == FirstTierFrom(rads, 1)
    IN  IF i = 0 THEN 0 ELSE DictGet(RAD_PENALTIES[i].penalties, attr, 0)

RECURSIVE StatModSum(_, _)
StatModSum(effects, attr) ==
    IF effects = <<>> THEN 0
    ELSE DictGet(Head(effects).stat_mods, attr, 0) + StatModSum(Tail(effects), attr)

\* a clamp after the radiation delta and another after the effect modifiers
EffectiveAttr_clamped_twice(player, attr) ==
    Max(1, Min(10, Max(1, Min(10, player.special[attr] + RadDelta(player.rads, attr)))
                   + StatModSum(player.status_effects, attr)))

\* base + radiation tier + effect modifiers, clamped to 1..10
EffectiveAttr(player, attr) ==
    Max(1, Min(10, player.special[attr]
                   + RadDelta(player.rads, attr)
                   + StatModSum(player.status_effects, attr)))

get_effective_special(player) ==
    [attr \in SPECIAL_ATTRS |-> EffectiveAttr(player, attr)]

\* the radiation entries of the modifiers dict: the delta each attribute got
RadiationModifiers(player) ==
    [attr \in SPECIAL_ATTRS |-> RadDelta(player.rads, attr)]

\* get_effective_special(player)[0].get(attr, 0), one attribute computed
EffectiveGet(player, attr) ==
    IF attr \in SPECIAL_ATTRS THEN EffectiveAttr(player, attr) ELSE 0

(***************************************************************************)
(* util.py: mode and action tracking                                       *)
(***************************************************************************)
get_mode(st) == st.mode

\* an entry into combat that carries the old round counter along
enter_combat_keeps_round(st) ==
    IF get_mode(st) = "combat"
    THEN [state |-> st, transition |-> NoTransition]
    ELSE [state |-> [st EXCEPT !.mode = "combat", !.turn_actions = {}],
          transition |-> <<"exploration", "combat">>]

\* returns the document and the transition info (NoTransition for None)
enter_combat(st) ==
    IF get_mode(st) = "combat"
    THEN [state |-> st, transition |-> NoTransition]
    ELSE [state |-> [st EXCEPT !.mode = "combat", !.combat_round = 0,
                               !.turn_actions = {}],
          transition |-> <<"exploration", "combat">>]

\* exit that resets the round and the action tracking but keeps the mode
exit_combat_keeps_mode(st) ==
    IF get_mode(st) = "exploration"
    THEN [state |-> st, transition |-> NoTransition]
    ELSE [state |-> [st EXCEPT !.combat_round = 0, !.turn_actions = {}],
          transition |-> <<"combat", "exploration">>]

exit_combat(st) ==
    IF get_mode(st) = "exploration"
    THEN [state |-> st, transition |-> NoTransition]
    ELSE [state |-> [st EXCEPT !.mode = "exploration", !.combat_round = 0,
                               !.turn_actions = {}],
          transition |-> <<"combat", "exploration">>]

AlivePlayers(st) == {p \in DOMAIN st.players : st.players[p].hp > 0}

AliveEnemies(st) == {e \in DOMAIN st.enemies : st.enemies[e].status = "alive"}

DeadEnemies(st) == {e \in DOMAIN st.enemies : st.enemies[e].status = "dead"}

(***************************************************************************)
(* util.py: roll_dice. The faces a die may show are drawn from small sets  *)
(* that reach every branch of the code that reads them.                    *)
(***************************************************************************)
\* d20: a natural 1, a success at or below a tagged skill level (2), a value
\* between the party's targets (8), a complication (20)
D20Faces == {2, 8, 20}

D6Faces == {1, 6}

FacesOf(sides) == IF sides = 20 THEN D20Faces ELSE D6Faces \cap (1..sides)

\* every list roll_dice(count, sides) may return
roll_dice(count, sides) == [1..count -> FacesOf(sides)]

(***************************************************************************)
(* dice.py: the skill check (solo / assisted / group)                      *)
(***************************************************************************)
\* mutant: a die equal to the target fails
_evaluate_die_strict(die_value, target, is_tag, skill_val) ==
    IF die_value = 1
    THEN [successes |-> 2, crit |-> TRUE, comp |-> FALSE]
    ELSE IF die_value = 20
    THEN [successes |-> 0, crit |-> FALSE, comp |-> TRUE]
    ELSE IF die_value < target
    THEN IF is_tag /\ die_value <= skill_val
         THEN [successes |-> 2, crit |-> TRUE, comp |-> FALSE]
         ELSE [successes |-> 1, crit |-> FALSE, comp |-> FALSE]
    ELSE [successes |-> 0, crit |-> FALSE, comp |-> FALSE]

\* (successes, is_crit, is_complication) of one d20 against a target number
_evaluate_die(die_value, target, is_tag, skill_val) ==
    IF die_value = 1
    THEN [successes |-> 2, crit |-> TRUE, comp |-> FALSE]
    ELSE IF die_value = 20
    THEN [successes |-> 0, crit |-> FALSE, comp |-> TRUE]
    ELSE IF die_value <= target
    THEN IF is_tag /\ die_value <= skill_val
         THEN [successes |-> 2, crit |-> TRUE, comp |-> FALSE]
         ELSE [successes |-> 1, crit |-> FALSE, comp |-> FALSE]
    ELSE [successes |-> 0, crit |-> FALSE, comp |-> FALSE]

\* target number of one player: effective attribute + skill level
TargetOf(st, pname, attr, skill_name) ==
    LET player == st.players[pname]
    IN  EffectiveGet(player, attr) + DictGet(player.skills, skill_name, 0)

\* the loop of _find_leader_name from position i on
RECURSIVE FindLeaderFrom(_, _, _, _, _, _, _)
FindLeaderFrom(st, player_names, attr, skill_name, i, best_name, best_target) ==
    IF i > Len(player_names) THEN best_name
    ELSE LET target == TargetOf(st, player_names[i], attr, skill_name)
         IN  IF target > best_target
             THEN FindLeaderFrom(st, player_names, attr, skill_name, i + 1,
                                 player_names[i], target)
             ELSE FindLeaderFrom(st, player_names, attr, skill_name, i + 1,
                                 best_name, best_target)

\* mutant: on equal targets the participant listed last is taken
RECURSIVE FindLastLeaderFrom(_, _, _, _, _, _, _)
FindLastLeaderFrom(st, player_names, attr, skill_name, i, best_name, best_target) ==
    IF i > Len(player_names) THEN best_name
    ELSE LET target == TargetOf(st, player_names[i], attr, skill_name)
         IN  IF target >= best_target
             THEN FindLastLeaderFrom(st, player_names, attr, skill_name, i + 1,
                                     player_names[i], target)
             ELSE FindLastLeaderFrom(st, player_names, attr, skill_name, i + 1,
                                     best_name, best_target)

_find_leader_name_last(st, player_names, attr, skill_name) ==
    FindLastLeaderFrom(st, player_names, attr, skill_name, 1, player_names[1], -1)

_find_leader_name(st, player_names, attr, skill_name) ==
    FindLeaderFrom(st, player_names, attr, skill_name, 1, player_names[1], -1)

\* one entry of `participants`
Participant(st, pname, attr, skill_name) ==
    LET player == st.players[pname]
        attr_val == EffectiveGet(player, attr)
        skill_val == DictGet(player.skills, skill_name, 0)
    IN  [name |-> pname, attr_val |-> attr_val, skill_val |-> skill_val,
         is_tag |-> skill_name \in Range(player.tag_skills),
         target |-> attr_val + skill_val]

\* mutant: an unstable descending sort, equal targets end up reversed
RECURSIVE InsertByTarget_unstable(_, _)
InsertByTarget_unstable(sorted, p) ==
    IF sorted = <<>> THEN <<p>>
    ELSE IF Head(sorted).target > p.target
    THEN <<Head(sorted)>> \o InsertByTarget_unstable(Tail(sorted), p)
    ELSE <<p>> \o sorted

\* list.sort(key=target, reverse=True): stable, equal targets keep input order
RECURSIVE InsertByTarget(_, _)
InsertByTarget(sorted, p) ==
    IF sorted = <<>> THEN <<p>>
    ELSE IF Head(sorted).target >= p.target
    THEN <<Head(sorted)>> \o InsertByTarget(Tail(sorted), p)
    ELSE <<p>> \o sorted

RECURSIVE SortByTarget(_)
SortByTarget(ps) ==
    IF ps = <<>> THEN <<>>
    ELSE InsertByTarget(SortByTarget(SubSeq(ps, 1, Len(ps) - 1)), ps[Len(ps)])

SortedParticipants(st, player_names, attr, skill_name) ==
    SortByTarget([i \in 1..Len(player_names) |->
                    Participant(st, player_names[i], attr, skill_name)])

\* mutant: one base die per participant on top of the leader's two
BaseCount_participants(nhelpers) == 2 + nhelpers + 1

\* dice pool: leader 2d20 + helpers 1d20 each + AP dice, cap 5
BaseCount(nhelpers) == 2 + nhelpers

TotalCount(base_count, ap_dice) == Min(5, base_count + ap_dice)

\* all_dice[:2] + all_dice[base_count:]
LeaderDice(all_dice, base_count) ==
    SubSeq(all_dice, 1, Min(2, Len(all_dice)))
    \o SubSeq(all_dice, base_count + 1, Len(all_dice))

\* mutant: the helpers' slice starts one die early
HelperDice_shifted(all_dice, nhelpers) ==
    SubSeq(all_dice, 2, Min(1 + nhelpers, Len(all_dice)))

\* all_dice[2:2 + len(helpers)]
HelperDice(all_dice, nhelpers) == SubSeq(all_dice, 3, Min(2 + nhelpers, Len(all_dice)))

\* the leader's loop: per-die results of the leader's dice
LeaderEval(leader, leader_dice) ==
    [i \in 1..Len(leader_dice) |->
        _evaluate_die(leader_dice[i], leader.target, leader.is_tag, leader.skill_val)]

\* the helpers' loop: one die per helper, in helper-list order
HelperResults(helpers, helper_dice, leader_contributed) ==
    [i \in 1..Len(helpers) |->
        LET ev == _evaluate_die(helper_dice[i], helpers[i].target,
                                helpers[i].is_tag, helpers[i].skill_val)
        IN  [name |-> helpers[i].name, target |-> helpers[i].target,
             die |-> helper_dice[i], successes |-> ev.successes,
             crit |-> ev.crit, comp |-> ev.comp,
             counted |-> leader_contributed]]

\* mutant: helper successes always count
LeaderContributed_always(leader_successes) == TRUE

\* leader must get >= 1 success for helper successes to count
LeaderContributed(leader_successes) == leader_successes >= 1

TotalSuccesses(leader_successes, helper_results) ==
    leader_successes
    + SeqSum([i \in 1..Len(helper_results) |->
                IF helper_results[i].counted THEN helper_results[i].successes ELSE 0])

ExcessAP(total_successes, difficulty) ==
    IF total_successes >= difficulty THEN Max(0, total_successes - difficulty) ELSE 0

CountTrue(s) == Cardinality({i \in 1..Len(s) : s[i]})

\* _evaluate_check from the roll on: the result dict for the dice all_dice
EvaluateRolled(participants, difficulty, base_count, total_count, all_dice) ==
    LET leader == participants[1]
        helpers == Tail(participants)
        actual_ap == total_count - base_count
        leader_dice == LeaderDice(all_dice, base_count)
        helper_dice == HelperDice(all_dice, Len(helpers))
        lev == LeaderEval(leader, leader_dice)
        leader_successes == SeqSum([i \in 1..Len(lev) |-> lev[i].successes])
        leader_contributed == LeaderContributed(leader_successes)
        helper_results == HelperResults(helpers, helper_dice, leader_contributed)
        total_successes == TotalSuccesses(leader_successes, helper_results)
        passed == total_successes >= difficulty
        excess_ap == ExcessAP(total_successes, difficulty)
    IN  [NoResult EXCEPT
            !.cmd = "check", !.ok = TRUE,
            !.mode = IF Len(participants) = 1 THEN "solo"
                     ELSE IF Len(participants) = 2 THEN "assisted" ELSE "group",
            !.players = [i \in 1..Len(participants) |-> participants[i].name],
            !.leader = leader.name,
            !.leader_target = leader.target,
            !.pool = total_count,
            !.dice = all_dice,
            !.leader_dice = leader_dice,
            !.leader_successes = leader_successes,
            !.helpers = helper_results,
            !.total_successes = total_successes,
            !.crits = CountTrue([i \in 1..Len(lev) |-> lev[i].crit])
                      + CountTrue([i \in 1..Len(helper_results) |-> helper_results[i].crit]),
            !.complications =
                      CountTrue([i \in 1..Len(lev) |-> lev[i].comp])
                      + CountTrue([i \in 1..Len(helper_results) |-> helper_results[i].comp]),
            !.passed = passed,
            !.excess_ap = excess_ap,
            !.ap_spent = IF actual_ap > 0 THEN actual_ap ELSE 0]

\* the core evaluation: the result dicts (each carries its excess_ap) over
\* every outcome of roll_dice(total_count, 20)
_evaluate_check(st, player_names, attr, skill_name, difficulty, ap_dice) ==
    LET participants == SortedParticipants(st, player_names, attr, skill_name)
        base_count == BaseCount(Len(participants) - 1)
        total_count == TotalCount(base_count, ap_dice)
    IN  {EvaluateRolled(participants, difficulty, base_count, total_count, all_dice) :
            all_dice \in roll_dice(total_count, 20)}

\* mutant: the leader's AP is never checked
InsufficientAP_never(original_ap, ap_spend) == FALSE

\* the leader cannot pay the requested AP
InsufficientAP(original_ap, ap_spend) == ap_spend > 0 /\ original_ap < ap_spend

\* mutant: the dice cap is not validated, the evaluator's min(5, ...) applies
CheckRejection_no_cap(st, player_names, attr, skill_name, difficulty, ap_spend) ==
    IF player_names = <<>> THEN "At least one player name required"
    ELSE IF \E i \in 1..Len(player_names) : player_names[i] \notin DOMAIN st.players
    THEN "Player not found"
    ELSE IF attr \notin SPECIAL_ATTRS THEN "Invalid attribute"
    ELSE IF skill_name \notin ALL_SKILLS THEN "Invalid skill"
    ELSE IF difficulty < 0 THEN "Difficulty must be non-negative"
    ELSE IF ap_spend < 0 \/ ap_spend > 3 THEN "AP spend must be 0-3"
    ELSE IF Len(player_names) + 1 > 5 THEN "Too many players"
    ELSE LET leader_name == _find_leader_name(st, player_names, attr, skill_name)
             original_ap == st.players[leader_name].ap
         IN  IF InsufficientAP(original_ap, ap_spend) THEN "cannot spend" ELSE ""

\* the argument checks of cmd_check up to the roll: the error, "" when accepted
CheckRejection(st, player_names, attr, skill_name, difficulty, ap_spend) ==
    IF player_names = <<>> THEN "At least one player name required"
    ELSE IF \E i \in 1..Len(player_names) : player_names[i] \notin DOMAIN st.players
    THEN "Player not found"
    ELSE IF attr \notin SPECIAL_ATTRS THEN "Invalid attribute"
    ELSE IF skill_name \notin ALL_SKILLS THEN "Invalid skill"
    ELSE IF difficulty < 0 THEN "Difficulty must be non-negative"
    ELSE IF ap_spend < 0 \/ ap_spend > 3 THEN "AP spend must be 0-3"
    ELSE LET base_dice == Len(player_names) + 1
             max_ap == 5 - base_dice
         IN  IF base_dice > 5 THEN "Too many players"
             ELSE IF ap_spend > max_ap
             THEN (IF max_ap <= 0 THEN "Cannot spend AP" ELSE "Max AP")
             ELSE LET leader_name == _find_leader_name(st, player_names, attr, skill_name)
                      original_ap == st.players[leader_name].ap
                  IN  IF InsufficientAP(original_ap, ap_spend)
                      THEN "cannot spend"
                      ELSE ""

\* mutant: the credited AP is capped at 5
CreditExcess_capped(st1, leader_name, excess_ap) ==
    IF excess_ap > 0
    THEN [st1 EXCEPT !.players[leader_name].ap = Min(5, @ + excess_ap)]
    ELSE st1

\* the leader's AP after the roll: the spend is already deducted in st1
CreditExcess(st1, leader_name, excess_ap) ==
    IF excess_ap > 0
    THEN [st1 EXCEPT !.players[leader_name].ap = @ + excess_ap]
    ELSE st1

\* the outcomes of the check command: one for an error, one per roll otherwise
cmd_check(st, player_names, attr, skill_name, difficulty, ap_spend) ==
    LET rejection == CheckRejection(st, player_names, attr, skill_name, difficulty, ap_spend)
        leader_name == _find_leader_name(st, player_names, attr, skill_name)
        original_ap == st.players[leader_name].ap
        st1 == IF ap_spend > 0
               THEN [st EXCEPT !.players[leader_name].ap = @ - ap_spend]
               ELSE st
    IN  IF rejection # "" THEN {Fail(st, "check", rejection)}
        ELSE {LET st2 == CreditExcess(st1, leader_name, ev.excess_ap)
              IN  Out(st2, [ev EXCEPT !.ap_before = original_ap,
                                      !.ap_after = st2.players[leader_name].ap,
                                      !.ap_change = st2.players[leader_name].ap - original_ap]) :
                 ev \in _evaluate_check(st1, player_names, attr, skill_name,
                                        difficulty, ap_spend)}

(***************************************************************************)
(* util.py: require_player / require_enemy / register_action               *)
(***************************************************************************)
HasPlayer(st, name) == name \in DOMAIN st.players

HasEnemy(st, name) == name \in DOMAIN st.enemies

\* a registration that reports the pending actors as they were before the call
register_action_stale(st, actor_name) ==
    LET actions == st.turn_actions \cup {actor_name}
        expected == AlivePlayers(st) \cup AliveEnemies(st)
        pending == expected \ st.turn_actions
    IN  [state |-> [st EXCEPT !.turn_actions = actions],
         status |-> [mode |-> get_mode(st), pending |-> pending,
                     all_acted |-> pending = {}]]

\* the document with the actor marked and the action_status dict
register_action(st, actor_name) ==
    LET actions == st.turn_actions \cup {actor_name}
        expected == AlivePlayers(st) \cup AliveEnemies(st)
        pending == expected \ actions
    IN  [state |-> [st EXCEPT !.turn_actions = actions],
         status |-> [mode |-> get_mode(st), pending |-> pending,
                     all_acted |-> pending = {}]]

(***************************************************************************)
(* world.py: cmd_set                                                       *)
(***************************************************************************)
SetAllowed ==
    {"chapter", "location", "quest", "time_of_day", "weather", "chapter_title", "mode"}

\* fields of the document this model keeps
SetStored == {"chapter", "time_of_day", "weather", "mode"}

\* an assignment that leaves the action tracking as it was
SetField_keeps_actions(st, field, value) ==
    LET st2 == IF field \in SetStored THEN [st EXCEPT ![field] = value] ELSE st
    IN  IF field = "chapter" THEN [st2 EXCEPT !.chapter_start_turn = st.turn] ELSE st2

\* state[field] = value, after the mode branch cleared turn_actions
SetField(st, field, value) ==
    LET st1 == IF field = "mode" THEN [st EXCEPT !.turn_actions = {}] ELSE st
        st2 == IF field \in SetStored THEN [st1 EXCEPT ![field] = value] ELSE st1
    IN  IF field = "chapter" THEN [st2 EXCEPT !.chapter_start_turn = st.turn] ELSE st2

cmd_set(st, field, value) ==
    IF field \notin SetAllowed THEN Fail(st, "set", "Invalid field")
    ELSE IF field = "mode" /\ value \notin {"exploration", "combat"}
    THEN Fail(st, "set", "Mode must be 'exploration' or 'combat'")
    ELSE Out(SetField(st, field, value),
             [NoResult EXCEPT !.cmd = "set", !.ok = TRUE])

(***************************************************************************)
(* world.py: cmd_turn, _tick_effects, _exploration_turn, _combat_turn      *)
(***************************************************************************)
\* dicts are walked in a fixed order of the names
NameOrder == <<"Jake", "Sarah", "Bob">>

Permanent(e) == e.remaining = -1

\* a tick that also keeps an effect on its last advance
Survives_one_more(e) == Permanent(e) \/ e.remaining >= 1

\* one effect survives the tick
Survives(e) == Permanent(e) \/ e.remaining > 1

Ticked(e) == IF Permanent(e) THEN e ELSE [e EXCEPT !.remaining = @ - 1]

RECURSIVE TickList(_)
\* the `remaining` list of one player
TickList(effects) ==
    IF effects = <<>> THEN <<>>
    ELSE IF Survives(Head(effects))
    THEN <<Ticked(Head(effects))>> \o TickList(Tail(effects))
    ELSE TickList(Tail(effects))

RECURSIVE ExpiredList(_, _)
\* the entries one player adds to expired_effects
ExpiredList(pname, effects) ==
    IF effects = <<>> THEN <<>>
    ELSE IF Survives(Head(effects))
    THEN ExpiredList(pname, Tail(effects))
    ELSE <<[player |-> pname, effect |-> Head(effects).name]>>
         \o ExpiredList(pname, Tail(effects))

RECURSIVE ActiveList(_, _)
ActiveList(pname, effects) ==
    IF effects = <<>> THEN <<>>
    ELSE IF Survives(Head(effects))
    THEN <<[player |-> pname, effect |-> Head(effects).name,
            remaining |-> Ticked(Head(effects)).remaining]>>
         \o ActiveList(pname, Tail(effects))
    ELSE ActiveList(pname, Tail(effects))

RECURSIVE ExpiredAll(_, _)
ExpiredAll(players, names) ==
    IF names = <<>> THEN <<>>
    ELSE IF Head(names) \in DOMAIN players
    THEN ExpiredList(Head(names), players[Head(names)].status_effects)
         \o ExpiredAll(players, Tail(names))
    ELSE ExpiredAll(players, Tail(names))

RECURSIVE ActiveAll(_, _)
ActiveAll(players, names) ==
    IF names = <<>> THEN <<>>
    ELSE IF Head(names) \in DOMAIN players
    THEN ActiveList(Head(names), players[Head(names)].status_effects)
         \o ActiveAll(players, Tail(names))
    ELSE ActiveAll(players, Tail(names))

\* death: Incapacitated expired while HP still 0
IsDeath(players, exp) ==
    /\ exp.effect = "Incapacitated"
    /\ exp.player \in DOMAIN players
    /\ players[exp.player].hp <= 0

RECURSIVE DeathList(_, _)
DeathList(players, expired) ==
    IF expired = <<>> THEN <<>>
    ELSE IF IsDeath(players, Head(expired))
    THEN <<Head(expired).player>> \o DeathList(players, Tail(expired))
    ELSE DeathList(players, Tail(expired))

\* (players after the tick, expired, active, deaths)
_tick_effects(st) ==
    LET expired == ExpiredAll(st.players, NameOrder)
    IN  [players |-> [p \in DOMAIN st.players |->
                        [st.players[p] EXCEPT !.status_effects = TickList(@)]],
         expired |-> expired,
         active |-> ActiveAll(st.players, NameOrder),
         deaths |-> DeathList(st.players, expired)]

\* a purge that clears the battlefield
PurgeDead_all(enemies) == [e \in {x \in DOMAIN enemies : FALSE} |-> enemies[e]]

\* auto-clear dead enemies
PurgeDead(enemies) == [e \in {x \in DOMAIN enemies : enemies[x].status # "dead"} |-> enemies[e]]

TimesOfDay ==
    <<"Early Morning", "Morning", "Noon", "Afternoon", "Evening", "Night",
      "Late Night", "Pre-Dawn">>

\* times.index(current) if current in times else 0, as a 1-based position
TimeIndex(current) ==
    IF \E i \in 1..Len(TimesOfDay) : TimesOfDay[i] = current
    THEN CHOOSE i \in 1..Len(TimesOfDay) : TimesOfDay[i] = current
    ELSE 1

\* times[(current_idx + 1) % len(times)]
NextTime(current) == TimesOfDay[(TimeIndex(current) % Len(TimesOfDay)) + 1]

\* data.py WEATHER_TABLE: (weather, weight)
WEATHER_TABLE ==
    << [weather |-> "Clear", weight |-> 20],
       [weather |-> "Overcast", weight |-> 15],
       [weather |-> "Cloudy", weight |-> 15],
       [weather |-> "Light Rain", weight |-> 10],
       [weather |-> "Heavy Rain", weight |-> 5],
       [weather |-> "Dusty", weight |-> 8],
       [weather |-> "Dust Storm", weight |-> 3],
       [weather |-> "Dense Fog", weight |-> 8],
       [weather |-> "Rad Storm", weight |-> 3],
       [weather |-> "Scorching Heat", weight |-> 5],
       [weather |-> "Bitter Cold", weight |-> 3],
       [weather |-> "Light Breeze", weight |-> 5] >>

WeatherTotal == SeqSum([i \in 1..Len(WEATHER_TABLE) |-> WEATHER_TABLE[i].weight])

\* the cumulative-weight walk for one roll in 1..total
RECURSIVE WeatherFrom(_, _, _)
WeatherFrom(roll, i, cumulative) ==
    IF i > Len(WEATHER_TABLE) THEN WEATHER_TABLE[1].weather
    ELSE IF roll <= cumulative + WEATHER_TABLE[i].weight THEN WEATHER_TABLE[i].weather
    ELSE WeatherFrom(roll, i + 1, cumulative + WEATHER_TABLE[i].weight)

ChosenWeather(roll) == WeatherFrom(roll, 1, 0)

\* weather_roll is random.randint(1, total), event_roll random.randint(1, 100)
_exploration_turn(st, weather_roll, event_roll) ==
    LET new_time == NextTime(st.time_of_day)
        new_day == new_time = "Early Morning"
        tick == _tick_effects(st)
        enemies == PurgeDead(st.enemies)
        dead == DeadEnemies(st)
        st1 == [st EXCEPT !.turn = @ + 1,
                          !.time_of_day = new_time,
                          !.weather = IF new_day THEN ChosenWeather(weather_roll) ELSE @,
                          !.players = tick.players,
                          !.enemies = enemies,
                          !.turn_actions = {}]
        alive == AliveEnemies(st1)
    IN  Out(st1,
            [NoResult EXCEPT
                !.cmd = "turn", !.ok = TRUE, !.mode = "exploration",
                !.turn = st1.turn, !.time_of_day = st1.time_of_day,
                !.weather_changed = IF new_day THEN st1.weather ELSE "",
                !.deaths = tick.deaths,
                !.expired_effects = tick.expired,
                !.active_effects = tick.active,
                !.enemies_cleared = dead,
                !.enemies_alive = alive,
                !.random_event = (alive = {} /\ event_roll <= 10)])

\* a round counter that stands still
NextRound_same(st) == st.combat_round

\* state["combat_round"] = state.get("combat_round", 0) + 1
NextRound(st) == st.combat_round + 1

_combat_turn(st) ==
    LET tick == _tick_effects(st)
        dead == DeadEnemies(st)
        st1 == [st EXCEPT !.combat_round = NextRound(st),
                          !.players = tick.players,
                          !.enemies = PurgeDead(st.enemies)]
        alive == AliveEnemies(st1)
        exit == IF alive = {} THEN exit_combat(st1)
                ELSE [state |-> st1, transition |-> NoTransition]
    IN  Out([exit.state EXCEPT !.turn_actions = {}],
            [NoResult EXCEPT
                !.cmd = "turn", !.ok = TRUE, !.mode = "combat",
                !.combat_round = st1.combat_round, !.turn = st.turn,
                !.deaths = tick.deaths,
                !.expired_effects = tick.expired,
                !.active_effects = tick.active,
                !.enemies_cleared = dead,
                !.enemies_alive = alive,
                !.mode_changed = exit.transition])

cmd_turn(st, weather_roll, event_roll) ==
    IF get_mode(st) = "combat"
    THEN _combat_turn(st)
    ELSE _exploration_turn(st, weather_roll, event_roll)

(***************************************************************************)
(* data.py: enemy templates, encounter rules                               *)
(***************************************************************************)
\* a damage expression "NdM" as the pair its parse yields
Dmg(n, m) == [count |-> n, sides |-> m]

Template(t, h, d, a, dr) ==
    [tier |-> t, hp |-> h, damage |-> d, attack_skill |-> a, drops |-> dr]

ENEMY_TEMPLATES ==
    "Radroach" :> Template(1, 10, Dmg(1, 6), 8, "junk") @@
    "Bloatfly" :> Template(1, 10, Dmg(1, 6), 6, "junk") @@
    "Mole Rat" :> Template(1, 15, Dmg(2, 6), 10, "junk") @@
    "Wild Dog" :> Template(1, 15, Dmg(2, 6), 12, "junk") @@
    "Feral Ghoul" :> Template(2, 20, Dmg(2, 6), 12, "common") @@
    "Raider" :> Template(2, 25, Dmg(3, 6), 10, "common") @@
    "Raider Psycho" :> Template(2, 25, Dmg(3, 6), 12, "common") @@
    "Mirelurk Hatchling" :> Template(2, 15, Dmg(2, 6), 10, "common") @@
    "Super Mutant" :> Template(3, 40, Dmg(4, 6), 12, "uncommon") @@
    "Raider Veteran" :> Template(3, 35, Dmg(3, 6), 14, "common") @@
    "Feral Ghoul Reaver" :> Template(3, 35, Dmg(3, 6), 14, "uncommon") @@
    "Yao Guai" :> Template(3, 45, Dmg(4, 6), 12, "uncommon") @@
    "Mirelurk" :> Template(3, 35, Dmg(3, 6), 12, "uncommon") @@
    "Deathclaw" :> Template(4, 60, Dmg(5, 6), 14, "rare") @@
    "Assaultron" :> Template(4, 50, Dmg(4, 6), 16, "rare") @@
    "Sentry Bot" :> Template(4, 70, Dmg(5, 6), 14, "rare") @@
    "Super Mutant Behemoth" :> Template(4, 80, Dmg(6, 6), 12, "rare") @@
    "Mirelurk Queen" :> Template(4, 100, Dmg(6, 6), 14, "unique") @@
    "Legendary Deathclaw" :> Template(5, 90, Dmg(6, 6), 16, "unique") @@
    "Legendary Assaultron" :> Template(5, 70, Dmg(5, 6), 18, "unique")

Rule(t, b, s) == [max_tier |-> t, hp_budget |-> b, safe_turns |-> s]

ENCOUNTER_RULES ==
    << Rule(1, 30, 2), Rule(2, 60, 1), Rule(2, 80, 1),
       Rule(3, 120, 0), Rule(4, 180, 0), Rule(5, 250, 0) >>

hp_to_tier(hp) ==
    IF hp <= 15 THEN 1
    ELSE IF hp <= 25 THEN 2
    ELSE IF hp <= 45 THEN 3
    ELSE IF hp <= 80 THEN 4
    ELSE 5

VALID_DROPS == {"junk", "common", "uncommon", "rare", "unique", "none"}

(***************************************************************************)
(* enemy.py: cmd_enemy_add                                                 *)
(***************************************************************************)
\* the three argument shapes
TemplateArgs(t) == [kind |-> "template", template |-> t]

NamedArgs(n, t) == [kind |-> "named", name |-> n, template |-> t]

CustomArgs(n, h, d, a, dr) ==
    [kind |-> "custom", name |-> n, hp |-> h, damage |-> d, attack_skill |-> a,
     drops |-> dr]

\* "" when the arguments parse, else the error of the first failing test
EnemyArgsError(args) ==
    IF args.kind \in {"template", "named"}
    THEN IF args.template \in DOMAIN ENEMY_TEMPLATES THEN "" ELSE "Unknown template"
    ELSE IF args.hp < 1 THEN "HP must be positive"
    ELSE IF args.attack_skill < 1 \/ args.attack_skill > 20
    THEN "Attack skill must be 1-20"
    ELSE IF args.drops \notin VALID_DROPS THEN "Invalid drops tier"
    ELSE ""

\* name, hp, damage, attack_skill, drops and tier of the enemy to add
EnemyToAdd(args) ==
    IF args.kind = "custom"
    THEN [name |-> args.name, hp |-> args.hp, damage |-> args.damage,
          attack_skill |-> args.attack_skill, drops |-> args.drops,
          tier |-> hp_to_tier(args.hp)]
    ELSE LET t == ENEMY_TEMPLATES[args.template]
         IN  [name |-> IF args.kind = "named" THEN args.name ELSE args.template,
              hp |-> t.hp, damage |-> t.damage, attack_skill |-> t.attack_skill,
              drops |-> t.drops, tier |-> t.tier]

\* ENCOUNTER_RULES.get(chapter, ENCOUNTER_RULES[min(chapter, 6)]): the default
\* is looked up first, so a chapter below 1 raises KeyError
RulesDefined(chapter) == Min(chapter, Len(ENCOUNTER_RULES)) >= 1

RulesFor(chapter) == ENCOUNTER_RULES[Min(chapter, Len(ENCOUNTER_RULES))]

\* turns per day in the count ramp
DayTurns == 24

\* a count ramp that lifts the limit after the first day
MaxEnemies_one_day(days_in_chapter) ==
    IF days_in_chapter < 1 THEN 1 ELSE 0

\* 0 stands for None (no limit)
MaxEnemies(days_in_chapter) ==
    IF days_in_chapter < 1 THEN 1
    ELSE IF days_in_chapter < 2 THEN 2
    ELSE 0

AliveHP(st) ==
    LET alive == AliveEnemies(st)
        f[S \in SUBSET alive] ==
            IF S = {} THEN 0
            ELSE LET e == CHOOSE x \in S : TRUE
                 IN  st.enemies[e].hp + f[S \ {e}]
    IN  f[alive]

\* int(base_budget * (1 + 0.5 * (player_count - 1)))
EffectiveBudget(base_budget, player_count) == (base_budget * (player_count + 1)) \div 2

\* a budget gate without a protection period
BudgetError_no_protection(st, enemy) ==
    LET rules == RulesFor(st.chapter)
        turns_in_chapter == st.turn - st.chapter_start_turn
        max_enemies == MaxEnemies(turns_in_chapter \div DayTurns)
        alive_count == Cardinality(AliveEnemies(st))
        player_count == Max(1, Cardinality(DOMAIN st.players))
        remaining == EffectiveBudget(rules.hp_budget, player_count) - AliveHP(st)
    IN  IF enemy.tier > rules.max_tier THEN "Enemy tier exceeds chapter max tier"
        ELSE IF max_enemies # 0 /\ alive_count >= max_enemies THEN "Enemy count limit"
        ELSE IF enemy.hp > remaining THEN "HP budget exceeded"
        ELSE ""

\* a budget gate that looks at the protection period before the tier ceiling
BudgetError_protection_first(st, enemy) ==
    LET rules == RulesFor(st.chapter)
        turns_in_chapter == st.turn - st.chapter_start_turn
        max_enemies == MaxEnemies(turns_in_chapter \div DayTurns)
        alive_count == Cardinality(AliveEnemies(st))
        player_count == Max(1, Cardinality(DOMAIN st.players))
        remaining == EffectiveBudget(rules.hp_budget, player_count) - AliveHP(st)
    IN  IF enemy.tier >= 2 /\ turns_in_chapter < rules.safe_turns
        THEN "Protection period"
        ELSE IF enemy.tier > rules.max_tier THEN "Enemy tier exceeds chapter max tier"
        ELSE IF max_enemies # 0 /\ alive_count >= max_enemies THEN "Enemy count limit"
        ELSE IF enemy.hp > remaining THEN "HP budget exceeded"
        ELSE ""

\* "" when the encounter budget admits the enemy, else the error
BudgetError(st, enemy) ==
    LET rules == RulesFor(st.chapter)
        turns_in_chapter == st.turn - st.chapter_start_turn
        max_enemies == MaxEnemies(turns_in_chapter \div DayTurns)
        alive_count == Cardinality(AliveEnemies(st))
        player_count == Max(1, Cardinality(DOMAIN st.players))
        remaining == EffectiveBudget(rules.hp_budget, player_count) - AliveHP(st)
    IN  IF enemy.tier > rules.max_tier THEN "Enemy tier exceeds chapter max tier"
        ELSE IF enemy.tier >= 2 /\ turns_in_chapter < rules.safe_turns
        THEN "Protection period"
        ELSE IF max_enemies # 0 /\ alive_count >= max_enemies THEN "Enemy count limit"
        ELSE IF enemy.hp > remaining THEN "HP budget exceeded"
        ELSE ""

NewEnemy(enemy) ==
    [hp |-> enemy.hp, max_hp |-> enemy.hp, damage |-> enemy.damage,
     attack_skill |-> enemy.attack_skill, drops |-> enemy.drops, status |-> "alive"]

\* an add that stores the enemy before the budget gate turns it down
cmd_enemy_add_stores_first(st, args) ==
    IF EnemyArgsError(args) # "" THEN Fail(st, "enemy-add", EnemyArgsError(args))
    ELSE IF ~RulesDefined(st.chapter) THEN Crash(st, "enemy-add", "KeyError")
    ELSE LET enemy == EnemyToAdd(args)
             err == BudgetError(st, enemy)
             stored == [st EXCEPT !.enemies = DictPut(@, enemy.name, NewEnemy(enemy))]
         IN  IF err # "" THEN Out(stored, Error("enemy-add", err))
             ELSE Out(stored,
                      [NoResult EXCEPT !.cmd = "enemy-add", !.ok = TRUE,
                                       !.tier = enemy.tier])

cmd_enemy_add(st, args) ==
    IF EnemyArgsError(args) # "" THEN Fail(st, "enemy-add", EnemyArgsError(args))
    ELSE IF ~RulesDefined(st.chapter) THEN Crash(st, "enemy-add", "KeyError")
    ELSE LET enemy == EnemyToAdd(args)
             err == BudgetError(st, enemy)
         IN  IF err # "" THEN Fail(st, "enemy-add", err)
             ELSE Out([st EXCEPT !.enemies = DictPut(@, enemy.name, NewEnemy(enemy))],
                      [NoResult EXCEPT !.cmd = "enemy-add", !.ok = TRUE,
                                       !.tier = enemy.tier])

(***************************************************************************)
(* enemy.py: cmd_enemy_hurt                                                *)
(***************************************************************************)
\* damage without the floor at 0
EnemyHpAfter_unfloored(enemy, amount) ==
    IF amount < 0 THEN Min(enemy.max_hp, enemy.hp - amount)
    ELSE enemy.hp - amount

\* hp after the amount: negative heals up to max_hp, otherwise damage down to 0
EnemyHpAfter(enemy, amount) ==
    IF amount < 0 THEN Min(enemy.max_hp, enemy.hp - amount)
    ELSE Max(0, enemy.hp - amount)

\* mutant: a heal leaves a dead enemy dead
EnemyStatusAfterHeal_stays_dead(enemy, amount) == enemy.status

\* status before the kill test: a heal revives
EnemyStatusAfterHeal(enemy, amount) ==
    IF amount < 0 /\ enemy.status = "dead" THEN "alive" ELSE enemy.status

cmd_enemy_hurt(st, name, amount) ==
    IF ~HasEnemy(st, name) THEN Fail(st, "enemy-hurt", "Enemy not found")
    ELSE LET enemy == st.enemies[name]
             hp == EnemyHpAfter(enemy, amount)
             status == EnemyStatusAfterHeal(enemy, amount)
             killed == hp <= 0 /\ status # "dead"
         IN  IF enemy.status = "dead" /\ amount > 0
             THEN Fail(st, "enemy-hurt", "already dead")
             ELSE Out([st EXCEPT !.enemies[name].hp = hp,
                                 !.enemies[name].status =
                                     IF killed THEN "dead" ELSE status],
                      [NoResult EXCEPT !.cmd = "enemy-hurt", !.ok = TRUE,
                                       !.hp_before = enemy.hp, !.hp_after = hp,
                                       !.amount = amount, !.killed = killed])

(***************************************************************************)
(* enemy.py: cmd_enemy_attack                                              *)
(***************************************************************************)
Incapacitated == [name |-> "Incapacitated", remaining |-> 3,
                  stat_mods |-> EmptyDict, damage_reduction |-> 0]

HasEffect(effects, ename) == \E i \in 1..Len(effects) : effects[i].name = ename

\* mutant: the effect is attached whether or not one is present
WithIncapacitated_always(effects) == Append(effects, Incapacitated)

\* the effects list after the auto-add on going down
WithIncapacitated(effects) ==
    IF HasEffect(effects, "Incapacitated") THEN effects
    ELSE Append(effects, Incapacitated)

\* attack_roll is roll_dice(1, 20)[0]; damage_dice is roll_dice(count, sides),
\* read only on a hit
cmd_enemy_attack(st, enemy_name, target_name, attack_roll, damage_dice) ==
    IF ~HasEnemy(st, enemy_name) THEN Fail(st, "enemy-attack", "Enemy not found")
    ELSE IF st.enemies[enemy_name].status = "dead"
    THEN Fail(st, "enemy-attack", "is dead and cannot attack")
    ELSE IF ~HasPlayer(st, target_name) THEN Fail(st, "enemy-attack", "Player not found")
    ELSE LET enemy == st.enemies[enemy_name]
             player == st.players[target_name]
             hit == attack_roll <= enemy.attack_skill
             is_crit == attack_roll = 1
             is_fumble == attack_roll = 20
             base == [NoResult EXCEPT !.cmd = "enemy-attack", !.ok = TRUE]
             total_damage == SeqSum(damage_dice)
                             + (IF is_crit THEN enemy.damage.count ELSE 0)
             hp == Max(0, player.hp - total_damage)
         IN  IF is_fumble THEN Out(st, [base EXCEPT !.fumble = TRUE])
             ELSE IF ~hit THEN Out(st, base)
             ELSE IF enemy.damage.count >= 1 /\ enemy.damage.sides < 1
             THEN Crash(st, "enemy-attack", "ValueError")
             ELSE Out([st EXCEPT
                          !.players[target_name].hp = hp,
                          !.players[target_name].status_effects =
                              IF hp <= 0 THEN WithIncapacitated(@) ELSE @],
                      [base EXCEPT !.hit = TRUE, !.critical = is_crit,
                                   !.damage_dice = damage_dice,
                                   !.total_damage = total_damage,
                                   !.hp_before = player.hp, !.hp_after = hp,
                                   !.target_down = (hp <= 0)])

(***************************************************************************)
(* player.py: _modify_hp (hurt / heal), cmd_rads, cmd_caps, cmd_ap         *)
(***************************************************************************)
RECURSIVE ReductionSum(_)
ReductionSum(effects) ==
    IF effects = <<>> THEN 0
    ELSE Head(effects).damage_reduction + ReductionSum(Tail(effects))

RECURSIVE WithoutEffect(_, _)
\* [e for e in effects if e["name"] != effect_name]
WithoutEffect(effects, ename) ==
    IF effects = <<>> THEN <<>>
    ELSE IF Head(effects).name = ename THEN WithoutEffect(Tail(effects), ename)
    ELSE <<Head(effects)>> \o WithoutEffect(Tail(effects), ename)

\* the amount after the Medicine bonus (heal) or damage reduction (hurt)
AdjustedAmount(player, amount, negative) ==
    IF ~negative THEN amount + player.skills["Medicine"] * 2
    ELSE IF ReductionSum(player.status_effects) > 0
    THEN Max(1, amount - ReductionSum(player.status_effects))
    ELSE amount

\* hurt clamps below only, heal clamps above only
HpAfter(player, amount, negative) ==
    IF negative THEN Max(0, player.hp - amount)
    ELSE Min(player.max_hp, player.hp + amount)

\* Incapacitated auto-added on reaching 0, auto-removed on healing above 0
EffectsAfterHp(effects, old_hp, hp) ==
    LET has_incap == HasEffect(effects, "Incapacitated")
    IN  IF hp <= 0 /\ old_hp > 0 /\ ~has_incap THEN Append(effects, Incapacitated)
        ELSE IF hp > 0 /\ has_incap THEN WithoutEffect(effects, "Incapacitated")
        ELSE effects

_modify_hp(st, name, amount, negative) ==
    LET cmdname == IF negative THEN "hurt" ELSE "heal"
    IN  IF ~HasPlayer(st, name) THEN Fail(st, cmdname, "Player not found")
        ELSE LET player == st.players[name]
                 amt == AdjustedAmount(player, amount, negative)
                 hp == HpAfter(player, amt, negative)
             IN  Out([st EXCEPT
                        !.players[name].hp = hp,
                        !.players[name].status_effects =
                            EffectsAfterHp(@, player.hp, hp)],
                     [NoResult EXCEPT !.cmd = cmdname, !.ok = TRUE, !.amount = amt,
                                      !.hp_before = player.hp, !.hp_after = hp])

cmd_hurt(st, name, amount) == _modify_hp(st, name, amount, TRUE)

cmd_heal(st, name, amount) == _modify_hp(st, name, amount, FALSE)

\* max(0, old + amount) on one numeric field
ModifyResource(st, cmdname, field, name, amount) ==
    IF ~HasPlayer(st, name) THEN Fail(st, cmdname, "Player not found")
    ELSE LET old == st.players[name][field]
             new == Max(0, old + amount)
         IN  Out([st EXCEPT !.players[name][field] = new],
                 [NoResult EXCEPT !.cmd = cmdname, !.ok = TRUE, !.amount = amount,
                                  !.ap_before = old, !.ap_after = new])

cmd_rads(st, name, amount) == ModifyResource(st, "rads", "rads", name, amount)

cmd_caps(st, name, amount) == ModifyResource(st, "caps", "caps", name, amount)

cmd_ap(st, name, amount) == ModifyResource(st, "ap", "ap", name, amount)

(***************************************************************************)
(* items.py: cmd_use_item, cmd_effect, cmd_rest                            *)
(***************************************************************************)
Chem(h, r, a, e, d, m, risk) ==
    [heal |-> h, rads |-> r, ap |-> a, effect |-> e, duration |-> d,
     stat_mods |-> m, addiction_risk |-> risk]

\* data.py CHEM_EFFECTS; an absent key is 0 / "" / {}
CHEM_EFFECTS ==
    "Stimpak" :> Chem(15, 0, 0, "", 0, EmptyDict, FALSE) @@
    "Super Stimpak" :> Chem(30, 0, 0, "", 0, EmptyDict, FALSE) @@
    "RadAway" :> Chem(0, -100, 0, "", 0, EmptyDict, FALSE) @@
    "Rad-X" :> Chem(0, 0, 0, "Rad Resistance", 3, EmptyDict, FALSE) @@
    "Nuka-Cola" :> Chem(2, 5, 1, "", 0, EmptyDict, FALSE) @@
    "Nuka-Cola Quantum" :> Chem(10, 10, 5, "", 0, EmptyDict, FALSE) @@
    "Purified Water" :> Chem(5, 0, 0, "", 0, EmptyDict, FALSE) @@
    "Dirty Water" :> Chem(2, 15, 0, "", 0, EmptyDict, FALSE) @@
    "Psycho" :> Chem(0, 0, 0, "Rage", 3, [END |-> 1], TRUE) @@
    "Jet" :> Chem(0, 0, 0, "Jet Rush", 2, [AGI |-> 2], TRUE) @@
    "Mentats" :> Chem(0, 0, 0, "Enhanced Cognition", 3, [INT |-> 2, PER |-> 2], TRUE) @@
    "Med-X" :> Chem(0, 0, 0, "Pain Suppression", 3, EmptyDict, TRUE) @@
    "Buffout" :> Chem(0, 0, 0, "Hulking", 3, [STR |-> 3, END |-> 3], TRUE) @@
    "Mutant Jerky" :> Chem(3, 5, 0, "", 0, EmptyDict, FALSE) @@
    "Squirrel on a Stick" :> Chem(2, 0, 0, "", 0, EmptyDict, FALSE)

\* inv[item] -= 1, the key deleted at 0
TakeOne(inv, item) ==
    IF inv[item] - 1 <= 0 THEN DictDel(inv, item) ELSE [inv EXCEPT ![item] = @ - 1]

Effect(ename, remaining, mods) ==
    [name |-> ename, remaining |-> remaining, stat_mods |-> mods, damage_reduction |-> 0]

\* a roll of 3 or less addicts
AddictionThreshold == 3

\* the effects list after the chem's effect and the addiction check
ChemEffects(effects, item, chem, addiction_roll) ==
    IF chem.effect = "" THEN effects
    ELSE LET gained == Append(effects, Effect(chem.effect, chem.duration, chem.stat_mods))
         IN  IF chem.addiction_risk /\ addiction_roll <= AddictionThreshold
             THEN Append(gained, Effect(item \o " Addiction", -1, EmptyDict))
             ELSE gained

\* the player after the chem: heal (with Medicine bonus), rads, ap, effect
Consumed(player, item, chem, addiction_roll) ==
    [player EXCEPT
        !.inventory = TakeOne(@, item),
        !.hp = IF chem.heal # 0
               THEN Min(player.max_hp, @ + chem.heal + player.skills["Medicine"] * 2)
               ELSE @,
        !.rads = IF chem.rads # 0 THEN Max(0, @ + chem.rads) ELSE @,
        !.ap = @ + chem.ap,
        !.status_effects = ChemEffects(@, item, chem, addiction_roll)]

\* addiction_roll is random.randint(1, 20), read only for chems with addiction risk
cmd_use_item(st, name, item, addiction_roll) ==
    IF ~HasPlayer(st, name) THEN Fail(st, "use-item", "Player not found")
    ELSE IF DictGet(st.players[name].inventory, item, 0) <= 0
    THEN Fail(st, "use-item", "does not have item")
    ELSE IF item \notin DOMAIN CHEM_EFFECTS THEN Fail(st, "use-item", "Unknown consumable")
    ELSE LET player == Consumed(st.players[name], item, CHEM_EFFECTS[item], addiction_roll)
             reg == register_action([st EXCEPT !.players[name] = player], name)
         IN  Out(reg.state,
                 [NoResult EXCEPT !.cmd = "use-item", !.ok = TRUE,
                                  !.hp_before = st.players[name].hp,
                                  !.hp_after = player.hp,
                                  !.mode = reg.status.mode,
                                  !.pending = reg.status.pending,
                                  !.all_acted = reg.status.all_acted])

cmd_effect_add(st, name, effect_name, duration) ==
    IF ~HasPlayer(st, name) THEN Fail(st, "effect", "Player not found")
    ELSE Out([st EXCEPT !.players[name].status_effects =
                            Append(@, Effect(effect_name, duration, EmptyDict))],
             [NoResult EXCEPT !.cmd = "effect", !.ok = TRUE])

cmd_effect_remove(st, name, effect_name) ==
    IF ~HasPlayer(st, name) THEN Fail(st, "effect", "Player not found")
    ELSE Out([st EXCEPT !.players[name].status_effects = WithoutEffect(@, effect_name)],
             [NoResult EXCEPT !.cmd = "effect", !.ok = TRUE])

RECURSIVE PermanentOnly(_)
\* [e for e in effects if e.get("remaining", 0) == -1]
PermanentOnly(effects) ==
    IF effects = <<>> THEN <<>>
    ELSE IF Permanent(Head(effects)) THEN <<Head(effects)>> \o PermanentOnly(Tail(effects))
    ELSE PermanentOnly(Tail(effects))

\* one player after the rest
Rested(player, hours) ==
    LET rate == 5 + player.skills["Survival"]
        healed == Min(hours * rate, player.max_hp - player.hp)
    IN  [player EXCEPT !.hp = Min(player.max_hp, player.hp + healed),
                       !.status_effects = PermanentOnly(@)]

\* hours is the argument, 8 when absent, clamped to 1..24
cmd_rest(st, hours) ==
    LET h == Max(1, Min(hours, 24))
        exit == exit_combat(st)
        st1 == exit.state
    IN  Out([st1 EXCEPT !.enemies = EmptyDict,
                        !.players = [p \in DOMAIN st1.players |-> Rested(st1.players[p], h)]],
            [NoResult EXCEPT !.cmd = "rest", !.ok = TRUE,
                             !.mode_changed = exit.transition,
                             !.mode = get_mode(st1),
                             !.enemies_cleared = DOMAIN st.enemies])

(***************************************************************************)
(* dice.py: cmd_damage                                                     *)
(***************************************************************************)
\* damage of one d6: 1-2 -> 1, 3-4 -> 2, 5-6 -> 3
DieDamage(d) == IF d <= 2 THEN 1 ELSE IF d <= 4 THEN 2 ELSE 3

\* dice is roll_dice(count + ap_spend, 6)
cmd_damage(st, player_name, count, bonus, ap_spend, dice) ==
    IF ~HasPlayer(st, player_name) THEN Fail(st, "damage", "Player not found")
    ELSE IF count < 1 \/ count > 20 THEN Fail(st, "damage", "Dice count must be 1-20")
    ELSE IF ap_spend < 0 \/ ap_spend > 3 THEN Fail(st, "damage", "AP spend must be 0-3")
    ELSE IF ap_spend > 0 /\ st.players[player_name].ap < ap_spend
    THEN Fail(st, "damage", "cannot spend")
    ELSE LET original_ap == st.players[player_name].ap
             spent == [NoResult EXCEPT !.ap_spent = ap_spend, !.ap_before = original_ap,
                                       !.ap_after = original_ap - ap_spend]
         IN  Out([st EXCEPT !.players[player_name].ap = @ - ap_spend],
                 [(IF ap_spend > 0 THEN spent ELSE NoResult) EXCEPT
                     !.cmd = "damage", !.ok = TRUE, !.dice = dice,
                     !.total_damage = bonus + SeqSum([i \in 1..Len(dice) |->
                                                        DieDamage(dice[i])])])

(***************************************************************************)
(* player.py: cmd_add_player                                               *)
(***************************************************************************)
StartInventory ==
    [x \in {"10mm Pistol", "10mm Ammo", "Stimpak", "Purified Water"} |->
        CASE x = "10mm Pistol" -> 1
          [] x = "10mm Ammo" -> 24
          [] x = "Stimpak" -> 2
          [] x = "Purified Water" -> 3]

AttrOrder == <<"STR", "PER", "END", "CHA", "INT", "AGI", "LCK">>

SpecialTotal(special) == SeqSum([i \in 1..7 |-> special[AttrOrder[i]]])

\* the player record built from a SPECIAL assignment and three tag skills
NewPlayer(special, tag_skills) ==
    [hp |-> special["END"] * 10,
     max_hp |-> special["END"] * 10,
     rads |-> 0,
     caps |-> 100,
     ap |-> 0,
     special |-> special,
     tag_skills |-> tag_skills,
     skills |-> [sk \in ALL_SKILLS |-> IF sk \in Range(tag_skills) THEN 2 ELSE 0],
     inventory |-> StartInventory,
     status_effects |-> <<>>]

\* an add-player that takes any SPECIAL total up to 40
cmd_add_player_at_most_40(st, name, special, tag_skills) ==
    IF \E a \in SPECIAL_ATTRS : special[a] < 1 \/ special[a] > 10
    THEN Fail(st, "add-player", "must be 1-10")
    ELSE IF SpecialTotal(special) > 40
    THEN Fail(st, "add-player", "SPECIAL total must be 40")
    ELSE IF \E i \in 1..3 : tag_skills[i] \notin ALL_SKILLS
    THEN Fail(st, "add-player", "Invalid skill")
    ELSE IF \E i, j \in 1..3 : i < j /\ tag_skills[i] = tag_skills[j]
    THEN Fail(st, "add-player", "Duplicate tag skill")
    ELSE Out([st EXCEPT !.players = DictPut(@, name, NewPlayer(special, tag_skills))],
             [NoResult EXCEPT !.cmd = "add-player", !.ok = TRUE])

cmd_add_player(st, name, special, tag_skills) ==
    IF \E a \in SPECIAL_ATTRS : special[a] < 1 \/ special[a] > 10
    THEN Fail(st, "add-player", "must be 1-10")
    ELSE IF SpecialTotal(special) # 40
    THEN Fail(st, "add-player", "SPECIAL total must be 40")
    ELSE IF \E i \in 1..3 : tag_skills[i] \notin ALL_SKILLS
    THEN Fail(st, "add-player", "Invalid skill")
    ELSE IF \E i, j \in 1..3 : i < j /\ tag_skills[i] = tag_skills[j]
    THEN Fail(st, "add-player", "Duplicate tag skill")
    ELSE Out([st EXCEPT !.players = DictPut(@, name, NewPlayer(special, tag_skills))],
             [NoResult EXCEPT !.cmd = "add-player", !.ok = TRUE])

(***************************************************************************)
(* The party used by the specifications: three characters as add-player    *)
(* creates them.                                                           *)
(***************************************************************************)
PlayerNames == {"Jake", "Sarah", "Bob"}

PartySpecial ==
    [p \in PlayerNames |->
        CASE p = "Jake" ->
               [STR |-> 4, PER |-> 7, END |-> 5, CHA |-> 4, INT |-> 8, AGI |-> 6, LCK |-> 6]
          [] p = "Sarah" ->
               [STR |-> 6, PER |-> 9, END |-> 6, CHA |-> 5, INT |-> 4, AGI |-> 6, LCK |-> 4]
          [] p = "Bob" ->
               [STR |-> 8, PER |-> 5, END |-> 7, CHA |-> 3, INT |-> 5, AGI |-> 7, LCK |-> 5]]

PartyTags ==
    [p \in PlayerNames |->
        CASE p = "Jake" -> <<"Science", "Lockpick", "Small Guns">>
          [] p = "Sarah" -> <<"Medicine", "Melee", "Speech">>
          [] p = "Bob" -> <<"Lockpick", "Melee", "Survival">>]

\* the document after init and add-player for each name of the sequence
RECURSIVE WithParty(_, _)
WithParty(st, names) ==
    IF names = <<>> THEN st
    ELSE WithParty(cmd_add_player(st, Head(names), PartySpecial[Head(names)],
                                  PartyTags[Head(names)]).state,
                   Tail(names))

FullParty == WithParty(cmd_init, <<"Jake", "Sarah", "Bob">>)

\* one survivor
SoloParty == WithParty(cmd_init, <<"Jake">>)

(***************************************************************************)
(* Specification SpecDie: _evaluate_die on every die value, target, tag    *)
(* flag and skill level.                                                   *)
(***************************************************************************)
MaxTarget == 16

MaxSkill == 6

DieInputs ==
    [die : 1..20, target : 1..MaxTarget, is_tag : BOOLEAN, skill_val : 0..MaxSkill]

InitDie ==
    /\ state = cmd_init
    /\ input \in DieInputs
    /\ result = NoResult

EvalDie ==
    /\ result.cmd = "none"
    /\ result' = [NoResult EXCEPT
                    !.cmd = "die", !.ok = TRUE,
                    !.helpers = <<_evaluate_die(input.die, input.target,
                                                input.is_tag, input.skill_val)>>]
    /\ UNCHANGED <<state, input>>

NextDie == EvalDie

SpecDie == InitDie /\ [][NextDie]_vars

(***************************************************************************)
(* Specification SpecCheck: one check command on the party, for every      *)
(* participant list, AP spend, difficulty and roll of the dice pool.       *)
(***************************************************************************)
MaxParticipants == 4

MaxApSpend == 4

\* AP the players hold before the check: some hold 3, some none, so that a
\* leader without AP stands beside a helper with AP and the other way round
APStarts ==
    {[p \in PlayerNames |-> IF p = "Sarah" THEN 0 ELSE 3],
     [p \in PlayerNames |-> IF p = "Sarah" THEN 3 ELSE 0]}

CheckAttrs == {"PER"}

CheckSkills == {"Lockpick"}

Difficulties == {-1, 2}

CheckInputs ==
    [cmd : {"check"},
     player_names : SeqsOf(PlayerNames, 0, MaxParticipants),
     attr : CheckAttrs, skill_name : CheckSkills,
     difficulty : Difficulties, ap_spend : 0..MaxApSpend]

InitCheck ==
    /\ \E ap \in APStarts :
          state = [FullParty EXCEPT
                     !.players = [p \in PlayerNames |-> [@[p] EXCEPT !.ap = ap[p]]]]
    /\ input \in CheckInputs
    /\ result = NoResult

\* the check command on the arguments of `input`
Check ==
    /\ result.cmd = "none"
    /\ \E out \in cmd_check(state, input.player_names, input.attr, input.skill_name,
                            input.difficulty, input.ap_spend) :
          /\ state' = out.state
          /\ result' = out.result
    /\ UNCHANGED input

NextCheck == Check

SpecCheck == InitCheck /\ [][NextCheck]_vars

(***************************************************************************)
(* Specification Spec: the mode state machine. The party is created, then  *)
(* the GM sets fields, adds and hurts enemies, advances turns and rests.   *)
(***************************************************************************)
MaxTurn == 3

MaxRound == 3

\* inputs of `set`
SetInputs ==
    { [cmd |-> "set", field |-> "mode", value |-> "combat"],
      [cmd |-> "set", field |-> "mode", value |-> "exploration"],
      [cmd |-> "set", field |-> "mode", value |-> "stealth"],
      [cmd |-> "set", field |-> "time_of_day", value |-> "Pre-Dawn"],
      [cmd |-> "set", field |-> "colour", value |-> "red"] }

\* inputs of `enemy-add`
EnemyAddInputs ==
    { TemplateArgs("Radroach"), NamedArgs("Rat", "Mole Rat"),
      TemplateArgs("Deathclaw"), TemplateArgs("Dragon") }

EnemyNames == {"Radroach", "Rat", "Nobody"}

EnemyHurtAmounts == {-5, 0, 10}

\* rolls of random.randint(1, total) for the weather, one per end and the middle
WeatherRolls == {1, 50, WeatherTotal}

\* rolls of random.randint(1, 100) for the random event
EventRolls == {10, 11}

RestHours == {1, 8}

\* a command's outcome becomes the next state
Step(out, in) ==
    /\ state' = out.state
    /\ result' = out.result
    /\ input' = in

Init ==
    /\ state = FullParty
    /\ input = [cmd |-> "init"]
    /\ result = NoResult

Set ==
    \E in \in SetInputs : Step(cmd_set(state, in.field, in.value), in)

Turn ==
    /\ state.turn < MaxTurn
    /\ state.combat_round < MaxRound
    /\ \E w \in WeatherRolls, e \in EventRolls :
          Step(cmd_turn(state, w, e), [cmd |-> "turn"])

EnemyAdd ==
    \E args \in EnemyAddInputs :
        Step(cmd_enemy_add(state, args), [cmd |-> "enemy-add", args |-> args])

EnemyHurt ==
    \E name \in EnemyNames, amount \in EnemyHurtAmounts :
        Step(cmd_enemy_hurt(state, name, amount),
             [cmd |-> "enemy-hurt", name |-> name, amount |-> amount])

Rest ==
    \E hours \in RestHours : Step(cmd_rest(state, hours), [cmd |-> "rest", hours |-> hours])

Next == Set \/ Turn \/ EnemyAdd \/ EnemyHurt \/ Rest

Spec == Init /\ [][Next]_vars

(***************************************************************************)
(* Specification SpecPlayer: the commands that touch one player's hp, ap,  *)
(* caps and rads, with amounts of either sign, against one enemy.          *)
(***************************************************************************)
MaxCaps == 100

MaxRads == 250

MaxAP == 2

Targets == {"Jake"}

HurtAmounts == {-20, 30}

HealAmounts == {-30, 20}

CapsAmounts == {-200, 100}

RadsAmounts == {-500, 250}

APAmounts == {-3, 2}

UsableItems == {"Stimpak", "RadAway"}

\* enemy attack rolls: hit, fumble
AttackRolls == {8, 20}

\* the face every damage die of the enemy shows
AttackDamageFaces == {5}

DamageFaces == {5}

CheckSpends == {1}

DamageSpends == {0, 1}

\* the player's hp is inside 0..max_hp; hp commands are explored from such states
HpInRange(st, name) ==
    HasPlayer(st, name) => st.players[name].hp \in 0..st.players[name].max_hp

\* the command leaves every player's caps, rads and ap within the explored range
Capped(out) ==
    \A p \in DOMAIN out.state.players :
        /\ out.state.players[p].caps <= MaxCaps
        /\ out.state.players[p].rads <= MaxRads
        /\ out.state.players[p].ap <= MaxAP

\* a command of SpecPlayer: explored from hp in range, to resources within the caps
PlayerStep(name, out, in) ==
    /\ HpInRange(state, name)
    /\ Capped(out)
    /\ Step(out, in)

InitPlayer ==
    /\ state = cmd_enemy_add(SoloParty, TemplateArgs("Radroach")).state
    /\ input = [cmd |-> "init"]
    /\ result = NoResult

Hurt ==
    \E name \in Targets, amount \in HurtAmounts :
        PlayerStep(name, cmd_hurt(state, name, amount),
                   [cmd |-> "hurt", name |-> name, amount |-> amount])

Heal ==
    \E name \in Targets, amount \in HealAmounts :
        PlayerStep(name, cmd_heal(state, name, amount),
                   [cmd |-> "heal", name |-> name, amount |-> amount])

Caps ==
    \E name \in Targets, amount \in CapsAmounts :
        PlayerStep(name, cmd_caps(state, name, amount),
                   [cmd |-> "caps", name |-> name, amount |-> amount])

Rads ==
    \E name \in Targets, amount \in RadsAmounts :
        PlayerStep(name, cmd_rads(state, name, amount),
                   [cmd |-> "rads", name |-> name, amount |-> amount])

AP ==
    \E name \in Targets, amount \in APAmounts :
        PlayerStep(name, cmd_ap(state, name, amount),
                   [cmd |-> "ap", name |-> name, amount |-> amount])

UseItem ==
    \E name \in Targets, item \in UsableItems :
        PlayerStep(name, cmd_use_item(state, name, item, AddictionThreshold),
                   [cmd |-> "use-item", name |-> name, item |-> item])

EnemyAttack ==
    \E target \in Targets, roll \in AttackRolls :
        /\ HasEnemy(state, "Radroach")
        /\ \E dice \in [1..state.enemies["Radroach"].damage.count -> AttackDamageFaces] :
              PlayerStep(target, cmd_enemy_attack(state, "Radroach", target, roll, dice),
                         [cmd |-> "enemy-attack", enemy |-> "Radroach", target |-> target])

PlayerCheck ==
    \E name \in Targets, ap_spend \in CheckSpends :
        \E out \in cmd_check(state, <<name>>, "PER", "Lockpick", 2, ap_spend) :
            PlayerStep(name, out, [cmd |-> "check", name |-> name, ap_spend |-> ap_spend])

Damage ==
    \E name \in Targets, ap_spend \in DamageSpends :
        \E dice \in [1..(1 + ap_spend) -> DamageFaces] :
            PlayerStep(name, cmd_damage(state, name, 1, 0, ap_spend, dice),
                       [cmd |-> "damage", name |-> name, ap_spend |-> ap_spend])

\* add-player on an existing name replaces the record
AddPlayer ==
    \E name \in Targets :
        PlayerStep(name, cmd_add_player(state, name, PartySpecial[name], PartyTags[name]),
                   [cmd |-> "add-player", name |-> name])

PlayerRest ==
    \E name \in Targets :
        PlayerStep(name, cmd_rest(state, 8), [cmd |-> "rest", hours |-> 8])

NextPlayer ==
    \/ Hurt \/ Heal \/ Caps \/ Rads \/ AP
    \/ UseItem \/ EnemyAttack \/ PlayerCheck \/ Damage \/ PlayerRest \/ AddPlayer

SpecPlayer == InitPlayer /\ [][NextPlayer]_vars

(***************************************************************************)
(* Specification SpecEffects: status effects added by the GM to two        *)
(* survivors and ticked by turn advances in either mode.                   *)
(***************************************************************************)
MaxEffects == 2

EffectTargets == {"Jake", "Sarah"}

EffectNames == {"Inspired"}

\* a three-turn effect and a permanent one
EffectDurations == {3, -1}

ModeInputs ==
    { [cmd |-> "set", field |-> "mode", value |-> "combat"],
      [cmd |-> "set", field |-> "mode", value |-> "exploration"] }

InitEffects ==
    /\ state = WithParty(cmd_init, <<"Jake", "Sarah">>)
    /\ input = [cmd |-> "init"]
    /\ result = NoResult

EffectAdd ==
    \E name \in EffectTargets, ename \in EffectNames, duration \in EffectDurations :
        /\ Len(state.players[name].status_effects) < MaxEffects
        /\ Step(cmd_effect_add(state, name, ename, duration),
                [cmd |-> "effect", name |-> name, effect |-> ename,
                 duration |-> duration])

EffectsSetMode ==
    \E in \in ModeInputs : Step(cmd_set(state, in.field, in.value), in)

EffectsTurn ==
    /\ state.turn < MaxTurn
    /\ state.combat_round < MaxRound
    /\ \E w \in WeatherRolls, e \in EventRolls :
          Step(cmd_turn(state, w, e), [cmd |-> "turn"])

NextEffects == EffectAdd \/ EffectsSetMode \/ EffectsTurn

SpecEffects == InitEffects /\ [][NextEffects]_vars

(***************************************************************************)
(* Specification SpecDowned: one survivor and one enemy; the survivor is   *)
(* hurt, attacked, healed and rested while turns advance in either mode.   *)
(***************************************************************************)
DownedHurtAmounts == {50}

DownedHealAmounts == {20}

\* the enemy's attack roll: hit, fumble
DownedAttackRolls == {8, 20}

InitDowned ==
    /\ state = cmd_enemy_add(SoloParty, TemplateArgs("Mole Rat")).state
    /\ input = [cmd |-> "init"]
    /\ result = NoResult

DownedHurt ==
    \E amount \in DownedHurtAmounts :
        Step(cmd_hurt(state, "Jake", amount),
             [cmd |-> "hurt", name |-> "Jake", amount |-> amount])

DownedHeal ==
    \E amount \in DownedHealAmounts :
        Step(cmd_heal(state, "Jake", amount),
             [cmd |-> "heal", name |-> "Jake", amount |-> amount])

DownedUseItem ==
    Step(cmd_use_item(state, "Jake", "Stimpak", AddictionThreshold),
         [cmd |-> "use-item", name |-> "Jake", item |-> "Stimpak"])

DownedAttack ==
    /\ HasEnemy(state, "Mole Rat")
    /\ \E roll \in DownedAttackRolls :
       \E dice \in [1..state.enemies["Mole Rat"].damage.count -> AttackDamageFaces] :
          Step(cmd_enemy_attack(state, "Mole Rat", "Jake", roll, dice),
               [cmd |-> "enemy-attack", enemy |-> "Mole Rat", name |-> "Jake"])

DownedEnemyHurt ==
    Step(cmd_enemy_hurt(state, "Mole Rat", 15),
         [cmd |-> "enemy-hurt", name |-> "Mole Rat", amount |-> 15])

DownedSetMode ==
    \E in \in ModeInputs : Step(cmd_set(state, in.field, in.value), in)

DownedTurn ==
    /\ state.turn < MaxTurn
    /\ state.combat_round < MaxRound
    /\ \E w \in WeatherRolls, e \in EventRolls :
          Step(cmd_turn(state, w, e), [cmd |-> "turn"])

DownedRest ==
    Step(cmd_rest(state, 8), [cmd |-> "rest", hours |-> 8])

NextDowned ==
    \/ DownedHurt \/ DownedHeal \/ DownedUseItem \/ DownedAttack
    \/ DownedEnemyHurt \/ DownedSetMode \/ DownedTurn \/ DownedRest

SpecDowned == InitDowned /\ [][NextDowned]_vars

(***************************************************************************)
(* Properties of the check resolver (SpecDie, SpecCheck).                  *)
(* The expected values are computed here from the arguments, the players'  *)
(* records and the dice the result reports, not from the resolver's own    *)
(* intermediate values.                                                    *)
(***************************************************************************)
AcceptedCheck(res) == res.cmd = "check" /\ res.ok

\* target numbers of the listed participants, in input order
RECURSIVE ListedTargetsFrom(_, _, _)
ListedTargetsFrom(st, in, i) ==
    IF i > Len(in.player_names) THEN <<>>
    ELSE <<TargetOf(st, in.player_names[i], in.attr, in.skill_name)>>
         \o ListedTargetsFrom(st, in, i + 1)

ListedTargets(st, in) == ListedTargetsFrom(st, in, 1)

\* position of the first target that no other target exceeds
FirstHighestIn(targets) ==
    CHOOSE i \in 1..Len(targets) :
        /\ \A j \in 1..Len(targets) : targets[j] <= targets[i]
        /\ \A j \in 1..(i - 1) : targets[j] < targets[i]

ExpectedLeader(st, in) == in.player_names[FirstHighestIn(ListedTargets(st, in))]

\* successes one die scores for a named player under the arguments of `in`
Scored(st, in, pname, die) ==
    LET target == TargetOf(st, pname, in.attr, in.skill_name)
        tagged == in.skill_name \in Range(st.players[pname].tag_skills)
        level == st.players[pname].skills[in.skill_name]
    IN  IF die = 1 THEN 2
        ELSE IF die = 20 THEN 0
        ELSE IF die > target THEN 0
        ELSE IF tagged /\ die <= level THEN 2
        ELSE 1

LeaderOwn(st, in, res) ==
    SeqSum([i \in 1..Len(res.leader_dice) |-> Scored(st, in, res.leader, res.leader_dice[i])])

HelperOwn(st, in, res) ==
    SeqSum([i \in 1..Len(res.helpers) |->
              Scored(st, in, res.helpers[i].name, res.helpers[i].die)])

Occurrences(s, v) == Cardinality({i \in 1..Len(s) : s[i] = v})

\* C3: total_successes is the leader's own successes plus the helpers' when the
\* leader's own dice scored at least 1 success, and 0 when they scored none,
\* whatever the helper dice show; every helper die is still reported.
C3_LeaderGate ==
    AcceptedCheck(result) =>
        /\ result.total_successes =
              IF LeaderOwn(state, input, result) >= 1
              THEN LeaderOwn(state, input, result) + HelperOwn(state, input, result)
              ELSE 0
        /\ Len(result.helpers) = Len(input.player_names) - 1
        /\ \A i \in 1..Len(result.helpers) : result.helpers[i].die \in D20Faces

\* a leader without a success beside a helper whose die succeeded
C3_Witness ==
    /\ AcceptedCheck(result)
    /\ LeaderOwn(state, input, result) = 0
    /\ HelperOwn(state, input, result) >= 1
    /\ result.total_successes = 0

\* C4: the leader is the participant with the highest target, and among the
\* participants with that target the one listed first.
C4_LeaderFirstHighest ==
    AcceptedCheck(result) =>
        LET targets == ListedTargets(state, input)
            first == FirstHighestIn(targets)
        IN  /\ result.leader = input.player_names[first]
            /\ result.leader_target = targets[first]
            /\ _find_leader_name(state, input.player_names, input.attr, input.skill_name)
                  = input.player_names[first]

\* Sarah listed before Jake, both with the highest target
C4_Witness ==
    /\ AcceptedCheck(result)
    /\ input.player_names = <<"Bob", "Sarah", "Jake">>
    /\ TargetOf(state, "Sarah", input.attr, input.skill_name)
          = TargetOf(state, "Jake", input.attr, input.skill_name)
    /\ result.leader = "Sarah"

\* C5: a check whose ap_spend exceeds 5 - (participants + 1), or exceeds the
\* leader's AP, ends in an error, rolls no die and leaves the whole state,
\* every player's AP included, as it was.
C5_OverspendRejected ==
    [][ (/\ result'.cmd = "check"
         /\ input.player_names # <<>>
         /\ \/ input.ap_spend > 5 - (Len(input.player_names) + 1)
            \/ input.ap_spend > state.players[ExpectedLeader(state, input)].ap)
        => (/\ ~result'.ok
            /\ result'.error # ""
            /\ result'.dice = <<>>
            /\ state' = state) ]_vars

\* rejected for the leader's AP although another participant holds enough
C5_Witness ==
    /\ result.cmd = "check"
    /\ result.error = "cannot spend"
    /\ input.ap_spend <= 5 - (Len(input.player_names) + 1)
    /\ \E i \in 1..Len(input.player_names) :
          state.players[input.player_names[i]].ap >= input.ap_spend
    /\ result.dice = <<>>

ExpectedExcess(in, res) ==
    IF res.total_successes >= in.difficulty
    THEN res.total_successes - in.difficulty
    ELSE 0

\* C6: after a successful check the leader's AP is ap_before - ap_spend + excess
\* (uncapped), nobody else is changed, and the leader's AP is not negative.
C6_LeaderAPAccounting ==
    [][ AcceptedCheck(result') =>
        LET leader == ExpectedLeader(state, input)
        IN  /\ state'.players[leader].ap =
                  state.players[leader].ap - input.ap_spend + ExpectedExcess(input, result')
            /\ state'.players[leader].ap >= 0
            /\ result'.ap_before = state.players[leader].ap
            /\ result'.ap_after = state'.players[leader].ap
            /\ \A p \in DOMAIN state.players :
                  p # leader => state'.players[p] = state.players[p]
            /\ DOMAIN state'.players = DOMAIN state.players ]_vars

\* 3 AP spent and more than 3 earned back in one check
C6_Witness ==
    /\ AcceptedCheck(result)
    /\ input.ap_spend = 3
    /\ result.excess_ap > 3
    /\ result.ap_after = result.ap_before - 3 + result.excess_ap
    /\ result.ap_after > 3

\* C7: one die scores 2 and a crit on a 1, 0 and a complication on a 20; any
\* other value <= target scores 1, or 2 (tag crit) iff the skill is tagged and
\* the value <= the raw skill level; a value > target scores 0.
C7_DieTable ==
    result.cmd = "die" =>
        LET r == result.helpers[1]
            d == input.die
        IN  /\ d = 1 => (r.successes = 2 /\ r.crit /\ ~r.comp)
            /\ d = 20 => (r.successes = 0 /\ r.comp /\ ~r.crit)
            /\ (d \notin {1, 20} /\ d <= input.target) =>
                  /\ ~r.comp
                  /\ r.successes = IF input.is_tag /\ d <= input.skill_val THEN 2 ELSE 1
                  /\ r.crit = (input.is_tag /\ d <= input.skill_val)
            /\ (d \notin {1, 20} /\ d > input.target) =>
                  (r.successes = 0 /\ ~r.crit /\ ~r.comp)

\* a tag crit: a tagged skill and a die at the skill level, not a natural 1
C7_Witness ==
    /\ result.cmd = "die"
    /\ input.die = 2 /\ input.is_tag /\ input.skill_val = 2 /\ input.target = 9
    /\ result.helpers[1].successes = 2
    /\ result.helpers[1].crit

\* C8: an accepted check of n participants and AP spend a rolls 2 + (n-1) + a
\* <= 5 dice; the leader is scored on 2 + a of them, each helper on one, in
\* helper-list order and against the helper's own target; the leader's and the
\* helpers' dice together are exactly the dice rolled.
C8_DicePartition ==
    AcceptedCheck(result) =>
        LET n == Len(input.player_names)
            a == input.ap_spend
            helper_dice == [i \in 1..Len(result.helpers) |-> result.helpers[i].die]
        IN  /\ n \in 1..4
            /\ Len(result.dice) = 2 + (n - 1) + a
            /\ Len(result.dice) <= 5
            /\ result.pool = Len(result.dice)
            /\ Len(result.leader_dice) = 2 + a
            /\ Len(result.helpers) = n - 1
            /\ \A v \in D20Faces :
                  Occurrences(result.leader_dice \o helper_dice, v)
                     = Occurrences(result.dice, v)
            /\ \A i \in 1..(n - 1) :
                  /\ result.helpers[i].name = result.players[i + 1]
                  /\ result.helpers[i].die = result.dice[2 + i]
                  /\ result.helpers[i].successes =
                        Scored(state, input, result.helpers[i].name, result.helpers[i].die)
            /\ result.leader_successes = LeaderOwn(state, input, result)

\* three participants and 1 AP: five dice, two helpers with different dice
C8_Witness ==
    /\ AcceptedCheck(result)
    /\ Len(input.player_names) = 3
    /\ input.ap_spend = 1
    /\ Len(result.dice) = 5
    /\ Len(result.leader_dice) = 3
    /\ result.helpers[1].die # result.helpers[2].die
    /\ result.helpers[1].name # result.helpers[2].name
    /\ result.dice[2] # result.dice[3]
    /\ result.dice[4] # result.dice[5]

\* C9: a check with one participant is the leader-only case: 2 + ap_spend dice,
\* all scored against that player, total_successes = leader_successes, pass
\* iff the total reaches the difficulty, AP change = excess - spend; no helper
\* and no leader gate takes part.
C9_SoloIsLeaderOnly ==
    (AcceptedCheck(result) /\ Len(input.player_names) = 1) =>
        LET own == SeqSum([i \in 1..Len(result.dice) |->
                             Scored(state, input, input.player_names[1], result.dice[i])])
        IN  /\ result.mode = "solo"
            /\ result.leader = input.player_names[1]
            /\ Len(result.dice) = 2 + input.ap_spend
            /\ result.helpers = <<>>
            /\ result.leader_successes = own
            /\ result.total_successes = own
            /\ result.passed = (own >= input.difficulty)
            /\ result.ap_change =
                  (IF own >= input.difficulty THEN own - input.difficulty ELSE 0)
                  - input.ap_spend

\* a solo check that spends 3 AP, rolls five dice and passes
C9_Witness ==
    /\ AcceptedCheck(result)
    /\ Len(input.player_names) = 1
    /\ input.ap_spend = 3
    /\ Len(result.dice) = 5
    /\ result.passed
    /\ result.total_successes = result.leader_successes

(***************************************************************************)
(* Properties of the mode state machine (Spec) and of the player's         *)
(* resources (SpecPlayer).                                                 *)
(***************************************************************************)
\* the step is a `turn` command run in combat mode
CombatTurnStep == state.mode = "combat" /\ result'.cmd = "turn"

\* the turn ended combat and said so
LeftCombat ==
    /\ state'.mode = "exploration"
    /\ result'.mode_changed = <<"combat", "exploration">>

\* the last command was an enemy-hurt that took the one alive enemy from hp > 0 to 0
KilledLastEnemy ==
    /\ result.cmd = "enemy-hurt" /\ result.ok
    /\ result.hp_before > 0 /\ result.hp_after = 0
    /\ \A e \in DOMAIN state.enemies : e # input.name => state.enemies[e].hp = 0

\* no enemy of the document is alive (dead ones are purged by the turn)
NoEnemyAlive == \A e \in DOMAIN state.enemies : state.enemies[e].status = "dead"

\* C1: in combat, the turn that follows the enemy-hurt which brought the only
\* alive enemy to 0 hp leaves mode = exploration, and every combat turn that
\* finds no alive enemy ends in exploration and reports the transition
\* combat -> exploration.
C1_CombatAutoExit ==
    [][CombatTurnStep /\ (KilledLastEnemy \/ NoEnemyAlive) => LeftCombat]_vars

C1_Witness ==
    /\ result.cmd = "turn" /\ result.mode = "combat"
    /\ input.cmd = "turn"
    /\ result.mode_changed = <<"combat", "exploration">>
    /\ result.enemies_cleared # {}
    /\ state.mode = "exploration"
    /\ state.enemies = EmptyDict

\* C2: every step that changes the mode leaves combat_round = 0.
C2_ModeChangeResetsRound ==
    [][state'.mode # state.mode => state'.combat_round = 0]_vars

\* C10: every player has 0 <= hp <= max_hp, ap >= 0, caps >= 0 and rads >= 0
\* after any sequence of add-player, hurt, heal, use-item, rest, enemy-attack,
\* check, damage, ap, caps and rads, whatever the sign of the amounts.
C10_ResourceBounds ==
    \A p \in DOMAIN state.players :
        /\ state.players[p].hp >= 0
        /\ state.players[p].hp <= state.players[p].max_hp
        /\ state.players[p].ap >= 0
        /\ state.players[p].caps >= 0
        /\ state.players[p].rads >= 0

\* C11: a player with hp > 0 carries no Incapacitated effect (no command that
\* raises hp above 0 leaves the effect on the player), in every state reached
\* without a manual `effect add`.
C11_NoIncapacitatedAboveZero ==
    \A p \in DOMAIN state.players :
        state.players[p].hp > 0 =>
            \A i \in 1..Len(state.players[p].status_effects) :
                state.players[p].status_effects[i].name # "Incapacitated"

\* an effect that has advances left: permanent, or 2 or 3 remaining
StillRunning(e) == e.remaining = -1 \/ e.remaining \in {2, 3}

\* the effect one advance later: permanent unchanged, otherwise one less remaining
OneAdvanceLater(e) ==
    IF e.remaining = -1 THEN e ELSE [e EXCEPT !.remaining = e.remaining - 1]

\* the effect list an advance must leave: the running effects, in order
ExpectedAfterAdvance(effects) ==
    LET kept == SelectSeq(effects, StillRunning)
    IN  [i \in 1..Len(kept) |-> OneAdvanceLater(kept[i])]

\* how many entries of the expired report name this player
ReportedExpired(report, p) ==
    Cardinality({i \in 1..Len(report) : report[i].player = p})

\* how many effects of the list are on their last advance
OnLastAdvance(effects) ==
    Cardinality({i \in 1..Len(effects) : effects[i].remaining = 1})

\* C12: on every turn advance, in either mode, an effect with 3 or 2 advances
\* remaining stays on the player with one less, an effect with 1 remaining is
\* reported expired and is gone from the list, and a permanent effect
\* (remaining = -1) is unchanged; so an effect added with remaining = 3 is
\* present after the 1st and 2nd advance and expires on the 3rd.
C12_EffectRoundTrip ==
    [][result'.cmd = "turn" =>
        \A p \in DOMAIN state.players :
            /\ state'.players[p].status_effects =
                   ExpectedAfterAdvance(state.players[p].status_effects)
            /\ ReportedExpired(result'.expired_effects, p) =
                   OnLastAdvance(state.players[p].status_effects)]_vars

\* a combat-mode advance reported the expiry of Jake's effect while his
\* permanent effect is still on him, unchanged
C12_Witness ==
    /\ result.cmd = "turn" /\ result.mode = "combat"
    /\ result.expired_effects = <<[player |-> "Jake", effect |-> "Inspired"]>>
    /\ state.players["Jake"].status_effects = <<Effect("Inspired", -1, EmptyDict)>>

\* the Incapacitated effects of a list, as the set of their remaining counts
IncapCountdowns(effects) ==
    {effects[i].remaining : i \in {j \in 1..Len(effects) :
                                      effects[j].name = "Incapacitated"}}

\* an Incapacitated effect of the player is on its last advance while hp is 0
ExpiresAtZero(player) ==
    /\ player.hp = 0
    /\ \E r \in IncapCountdowns(player.status_effects) : r # -1 /\ r <= 1

\* the step is a hurt or an enemy attack that took the player from hp > 0 to 0
BroughtDown(p) ==
    /\ result'.cmd \in {"hurt", "enemy-attack"}
    /\ state.players[p].hp > 0
    /\ state'.players[p].hp = 0

\* C13: an advance (either mode) reports a player in deaths exactly when an
\* Incapacitated effect of that player expires on it while hp is still 0; a
\* player brought to 0 by hurt or enemy-attack starts a countdown of three
\* advances (dead on the third following advance if never healed, on no
\* earlier one), and a player healed above 0 is not reported dead.
C13_DeathOnThirdAdvance ==
    [][\A p \in DOMAIN state.players :
          /\ result'.cmd = "turn" =>
                ((\E i \in 1..Len(result'.deaths) : result'.deaths[i] = p)
                     <=> ExpiresAtZero(state.players[p]))
          /\ BroughtDown(p) =>
                IncapCountdowns(state'.players[p].status_effects) = {3}]_vars

\* the step advances the turn, changes the mode, or is an accepted `set mode`
ClearsActions ==
    \/ result'.cmd = "turn"
    \/ state'.mode # state.mode
    \/ result'.cmd = "set" /\ result'.ok /\ input'.field = "mode"

\* C17: turn_actions is empty after every turn advance (either mode), after
\* every mode transition and after every accepted `set mode`.
C17_ActionsCleared ==
    [][ClearsActions => state'.turn_actions = {}]_vars

\* a stimpak was used (the survivor registered an action), then combat was
\* declared by `set mode` before any turn, and no action is recorded
C17_Witness ==
    /\ result.cmd = "set" /\ result.ok
    /\ input.cmd = "set" /\ input.value = "combat"
    /\ state.mode = "combat"
    /\ state.turn = 0 /\ state.combat_round = 0
    /\ DictGet(state.players["Jake"].inventory, "Stimpak", 0) = 1
    /\ state.turn_actions = {}

\* the step is a `turn` command run in exploration mode
ExplorationTurnStep == state.mode = "exploration" /\ result'.cmd = "turn"

\* position of a time of day in the 8-step cycle, 0 when it is none of them
CycleStep(t) ==
    IF \E i \in 1..8 : TimesOfDay[i] = t THEN CHOOSE i \in 1..8 : TimesOfDay[i] = t ELSE 0

\* C14: an exploration turn increases `turn` by exactly 1; time_of_day moves to
\* the next of its 8 steps only on every 3rd turn and is unchanged on the
\* other turns (a full cycle takes 24 exploration turns).
C14_TimeEveryThirdTurn ==
    [][ExplorationTurnStep =>
        /\ state'.turn = state.turn + 1
        /\ IF state'.turn % 3 = 0
           THEN CycleStep(state'.time_of_day) = (CycleStep(state.time_of_day) % 8) + 1
           ELSE state'.time_of_day = state.time_of_day]_vars

\* C15: a turn taken in combat mode increments combat_round by exactly 1, or
\* leaves it 0 when combat auto-exits, and never changes turn, time_of_day or
\* weather.
C15_CombatTurnFrame ==
    [][CombatTurnStep =>
        /\ state'.turn = state.turn
        /\ state'.time_of_day = state.time_of_day
        /\ state'.weather = state.weather
        /\ IF state'.mode = "combat"
           THEN state'.combat_round = state.combat_round + 1
           ELSE state'.combat_round = 0]_vars

\* a second combat round was played after an exploration turn
C15_Witness ==
    /\ result.cmd = "turn" /\ result.mode = "combat"
    /\ state.mode = "combat"
    /\ state.combat_round = 2
    /\ state.turn = 1
    /\ state.time_of_day = "Morning"

\* C16: after every turn command, in either mode, no enemy with status = dead
\* remains, and every enemy that was alive before the turn is still there,
\* unchanged.
C16_PurgeOnlyDead ==
    [][result'.cmd = "turn" =>
        /\ \A e \in DOMAIN state'.enemies : state'.enemies[e].status # "dead"
        /\ \A e \in DOMAIN state.enemies :
              state.enemies[e].status = "alive" =>
                  /\ e \in DOMAIN state'.enemies
                  /\ state'.enemies[e] = state.enemies[e]]_vars

\* a turn cleared a dead Radroach and left the alive Rat on the battlefield
C16_Witness ==
    /\ result.cmd = "turn"
    /\ result.enemies_cleared = {"Radroach"}
    /\ DOMAIN state.enemies = {"Rat"}
    /\ state.enemies["Rat"].status = "alive"

(***************************************************************************)
(* The mode and action-tracking helpers of util.py applied to loaded       *)
(* documents: two survivors standing or down, a Radroach alive, dead or    *)
(* absent, either mode, any round, any set of recorded actors.             *)
(***************************************************************************)
Actors == {"Jake", "Sarah", "Radroach"}

PairParty == WithParty(cmd_init, <<"Jake", "Sarah">>)

\* the party with each survivor standing (full hp) or down (hp 0)
PartyDocs ==
    {[PairParty EXCEPT !.players["Jake"].hp = IF j THEN @ ELSE 0,
                       !.players["Sarah"].hp = IF s THEN @ ELSE 0] :
        j \in BOOLEAN, s \in BOOLEAN}

\* the document with a Radroach that is alive, or already killed
WithRadroach(st, alive) ==
    LET added == cmd_enemy_add(st, TemplateArgs("Radroach")).state
    IN  IF alive THEN added
        ELSE [added EXCEPT !.enemies["Radroach"].hp = 0,
                           !.enemies["Radroach"].status = "dead"]

UtilDocs ==
    {[d EXCEPT !.mode = m, !.combat_round = r, !.turn_actions = acted] :
        d \in PartyDocs \cup {WithRadroach(p, a) : p \in PartyDocs, a \in BOOLEAN},
        m \in {"exploration", "combat"},
        r \in 0..MaxRound,
        acted \in SUBSET Actors}

InitUtil ==
    /\ state \in UtilDocs
    /\ input = [cmd |-> "load"]
    /\ result = NoResult

EnterCombat ==
    LET r == enter_combat(state)
    IN  /\ state' = r.state
        /\ result' = [NoResult EXCEPT !.cmd = "enter_combat",
                                      !.mode_changed = r.transition]
        /\ input' = [cmd |-> "enter_combat", before |-> state]

ExitCombat ==
    LET r == exit_combat(state)
    IN  /\ state' = r.state
        /\ result' = [NoResult EXCEPT !.cmd = "exit_combat",
                                      !.mode_changed = r.transition]
        /\ input' = [cmd |-> "exit_combat", before |-> state]

RegisterAction ==
    \E actor \in Actors :
        LET r == register_action(state, actor)
        IN  /\ state' = r.state
            /\ result' = [NoResult EXCEPT !.cmd = "register_action",
                                          !.mode = r.status.mode,
                                          !.pending = r.status.pending,
                                          !.all_acted = r.status.all_acted]
            /\ input' = [cmd |-> "register_action", actor |-> actor, before |-> state]

NextUtil == EnterCombat \/ ExitCombat \/ RegisterAction

SpecUtil == InitUtil /\ [][NextUtil]_vars

\* mode, round counter and recorded actors are those of the other document
SameTracking(a, b) ==
    /\ a.mode = b.mode
    /\ a.combat_round = b.combat_round
    /\ a.turn_actions = b.turn_actions

\* the document is in the given mode with a fresh round and no recorded actor
FreshIn(st, m) == st.mode = m /\ st.combat_round = 0 /\ st.turn_actions = {}

\* C18: enter_combat in combat mode and exit_combat in exploration mode return
\* no transition and leave mode, combat_round and turn_actions unchanged; from
\* the other mode they set the mode, combat_round = 0 and empty turn_actions.
C18_ModeHelpers ==
    /\ input.cmd = "enter_combat" =>
          IF input.before.mode = "combat"
          THEN result.mode_changed = NoTransition /\ SameTracking(state, input.before)
          ELSE FreshIn(state, "combat")
    /\ input.cmd = "exit_combat" =>
          IF input.before.mode = "exploration"
          THEN result.mode_changed = NoTransition /\ SameTracking(state, input.before)
          ELSE FreshIn(state, "exploration")

\* combat was entered from an exploration document with a stale round counter
\* and recorded actors
C18_Witness ==
    /\ input.cmd = "enter_combat"
    /\ input.before.mode = "exploration"
    /\ input.before.combat_round = 2
    /\ input.before.turn_actions = {"Jake"}
    /\ state.mode = "combat"
    /\ result.mode_changed # NoTransition

\* players with hp > 0 and enemies with status alive
ExpectedActors(st) ==
    {p \in DOMAIN st.players : st.players[p].hp > 0}
        \cup {e \in DOMAIN st.enemies : st.enemies[e].status = "alive"}

\* C19: register_action reports pending = (players with hp > 0 and alive
\* enemies) minus the recorded actors, and all_acted exactly when pending is
\* empty; registering an actor already recorded changes neither turn_actions
\* nor pending.
C19_PendingActors ==
    input.cmd = "register_action" =>
        /\ state.turn_actions = input.before.turn_actions \cup {input.actor}
        /\ result.pending = ExpectedActors(state) \ state.turn_actions
        /\ result.all_acted = (result.pending = {})
        /\ input.actor \in input.before.turn_actions =>
              /\ state.turn_actions = input.before.turn_actions
              /\ result.pending = ExpectedActors(input.before) \ input.before.turn_actions

\* Jake registers again while Sarah and the Radroach have yet to act
C19_Witness ==
    /\ input.cmd = "register_action"
    /\ input.actor = "Jake"
    /\ "Jake" \in input.before.turn_actions
    /\ result.pending = {"Sarah", "Radroach"}
    /\ ~result.all_acted

(***************************************************************************)
(* The encounter budget: enemy-add on documents of every chapter, early    *)
(* and late in the chapter, for no, one or two survivors, with a Radroach  *)
(* that may have been killed.                                              *)
(***************************************************************************)
MaxChapter == 7

\* <<chapter_start_turn, turn>>: inside and after the protection period, and
\* the first and last turn of the first, second and third day of the chapter
ChapterClock ==
    {<<0, 0>>, <<0, 1>>, <<5, 5>>, <<5, 28>>, <<5, 29>>, <<0, 47>>, <<0, 48>>}

\* one template per tier, three of them with an hp outside their tier's band
EncounterTemplates ==
    {"Radroach", "Mirelurk Hatchling", "Super Mutant", "Mirelurk Queen",
     "Legendary Assaultron"}

\* custom hp on both sides of every band edge
BossHp == {15, 16, 25, 26, 45, 46, 80, 81}

EncounterArgs ==
    {TemplateArgs(t) : t \in EncounterTemplates}
        \cup {NamedArgs("Raider 1", "Raider")}
        \cup {CustomArgs("Boss", h, Dmg(4, 6), 14, "rare") : h \in BossHp}

\* the hit that kills any enemy of the tables
KillingBlow == 100

EncounterDocs ==
    {[p EXCEPT !.chapter = c, !.chapter_start_turn = k[1], !.turn = k[2]] :
        p \in {cmd_init, SoloParty, PairParty},
        c \in 1..MaxChapter,
        k \in ChapterClock}

InitEncounter ==
    /\ state \in EncounterDocs
    /\ input = [cmd |-> "load"]
    /\ result = NoResult

EncounterAdd ==
    \E args \in EncounterArgs :
        LET out == cmd_enemy_add(state, args)
        IN  /\ state' = out.state
            /\ result' = out.result
            /\ input' = [cmd |-> "enemy-add", args |-> args, before |-> state]

EncounterHurt ==
    /\ "Radroach" \in DOMAIN state.enemies
    /\ LET out == cmd_enemy_hurt(state, "Radroach", KillingBlow)
       IN  /\ state' = out.state
           /\ result' = out.result
           /\ input' = [cmd |-> "enemy-hurt", name |-> "Radroach",
                        amount |-> KillingBlow, before |-> state]

NextEncounter == EncounterAdd \/ EncounterHurt

SpecEncounter == InitEncounter /\ [][NextEncounter]_vars

\* the tier of the enemy the arguments describe: the template's, or for a
\* custom enemy the band of its hp
ClaimedTier(args) ==
    IF args.kind = "custom"
    THEN IF args.hp <= 15 THEN 1
         ELSE IF args.hp <= 25 THEN 2
         ELSE IF args.hp <= 45 THEN 3
         ELSE IF args.hp <= 80 THEN 4
         ELSE 5
    ELSE ENEMY_TEMPLATES[args.template].tier

TierCeilingError == "Enemy tier exceeds chapter max tier"

\* C20: enemy-add is rejected whenever the enemy's tier (its template's, or the
\* hp band of a custom enemy) exceeds the chapter's max_tier, with the tier
\* ceiling as the reason whatever other budget rule is violated; at chapter 1,
\* turn 0, with no enemies, Radroach is added and Super Mutant is rejected
\* for its tier.
C20_TierCeiling ==
    input.cmd = "enemy-add" =>
        LET before == input.before
            fresh == before.chapter = 1 /\ before.turn = 0
                     /\ DOMAIN before.enemies = {}
        IN  /\ ClaimedTier(input.args) > RulesFor(before.chapter).max_tier =>
                  /\ ~result.ok
                  /\ result.error = TierCeilingError
                  /\ state = before
            /\ fresh /\ input.args = TemplateArgs("Radroach") =>
                  /\ result.ok
                  /\ DOMAIN state.enemies = {"Radroach"}
            /\ fresh /\ input.args = TemplateArgs("Super Mutant") =>
                  /\ ~result.ok
                  /\ result.error = TierCeilingError

\* a Super Mutant is refused for its tier at chapter 1, turn 0, with a Radroach
\* alive: the protection period, the count limit and the hp budget are all
\* violated as well
C20_Witness ==
    /\ input.cmd = "enemy-add"
    /\ input.args = TemplateArgs("Super Mutant")
    /\ input.before.chapter = 1
    /\ input.before.turn = 0
    /\ DOMAIN input.before.enemies = {"Radroach"}
    /\ input.before.enemies["Radroach"].status = "alive"
    /\ result.error = TierCeilingError
    /\ ~result.ok

\* turns since the chapter began, in the document the command was run on
TurnsIn(st) == st.turn - st.chapter_start_turn

\* number of enemies with status alive
AliveCount(st) == Cardinality({e \in DOMAIN st.enemies : st.enemies[e].status = "alive"})

\* the command was refused and the document is as it was
Rejected == ~result.ok /\ result.error # "" /\ state = input.before

\* C21: while turn - chapter_start_turn is less than the chapter's safe_turns,
\* enemy-add of any enemy of tier >= 2 is rejected, and no tier-1 enemy is
\* rejected by this rule.
C21_ProtectionPeriod ==
    input.cmd = "enemy-add" =>
        /\ TurnsIn(input.before) < RulesFor(input.before.chapter).safe_turns
           /\ ClaimedTier(input.args) >= 2 => Rejected
        /\ ClaimedTier(input.args) = 1 => result.error # "Protection period"

\* a tier-2 Mirelurk Hatchling that fits tier, count and budget is refused on
\* the first turn of chapter 2
C21_Witness ==
    /\ input.cmd = "enemy-add"
    /\ input.args = TemplateArgs("Mirelurk Hatchling")
    /\ input.before.chapter = 2
    /\ TurnsIn(input.before) = 0
    /\ DOMAIN input.before.enemies = {}
    /\ result.error = "Protection period"
    /\ state = input.before

\* C22: enemy-add is rejected when an enemy is already alive during turns 0..23
\* of the chapter, or two are during turns 24..47; from turn 48 of the chapter
\* on the count rule never rejects an add.
C22_CountRamp ==
    input.cmd = "enemy-add" =>
        /\ TurnsIn(input.before) \in 0..23 /\ AliveCount(input.before) >= 1 => Rejected
        /\ TurnsIn(input.before) \in 24..47 /\ AliveCount(input.before) >= 2 => Rejected
        /\ TurnsIn(input.before) >= 48 => result.error # "Enemy count limit"

\* on turn 47 of chapter 2 a Radroach is refused for the count alone: two
\* enemies are alive and the budget has room for it
C22_Witness ==
    /\ input.cmd = "enemy-add"
    /\ input.args = TemplateArgs("Radroach")
    /\ input.before.chapter = 2
    /\ TurnsIn(input.before) = 47
    /\ AliveCount(input.before) = 2
    /\ "Radroach" \notin DOMAIN input.before.enemies
    /\ result.error = "Enemy count limit"
    /\ state = input.before

\* sum of the hp of the enemies with status alive
RECURSIVE AliveHpSum(_, _)
AliveHpSum(st, names) ==
    IF names = {} THEN 0
    ELSE LET e == CHOOSE x \in names : TRUE
         IN  (IF st.enemies[e].status = "alive" THEN st.enemies[e].hp ELSE 0)
                 + AliveHpSum(st, names \ {e})

\* hp of the enemy the arguments describe
ClaimedHp(args) ==
    IF args.kind = "custom" THEN args.hp ELSE ENEMY_TEMPLATES[args.template].hp

\* floor(base * (1 + 0.5 * (player_count - 1)))
ClaimedBudget(st) ==
    (RulesFor(st.chapter).hp_budget * (Cardinality(DOMAIN st.players) + 1)) \div 2

\* C23: enemy-add succeeds only if the hp of the alive enemies plus the new
\* enemy's hp is at most floor(base_hp_budget * (1 + 0.5 * (player_count - 1)))
\* for the chapter, for every player_count; dead enemies do not count.
C23_HpBudget ==
    input.cmd = "enemy-add" /\ result.ok =>
        AliveHpSum(input.before, DOMAIN input.before.enemies) + ClaimedHp(input.args)
            <= ClaimedBudget(input.before)

\* the budget of C23 for documents with at least one survivor
C23_HpBudgetWithPlayers ==
    input.cmd = "enemy-add" /\ result.ok /\ DOMAIN input.before.players # {} =>
        AliveHpSum(input.before, DOMAIN input.before.enemies) + ClaimedHp(input.args)
            <= ClaimedBudget(input.before)

\* the step is an enemy-hurt with a positive amount on an enemy of the document
PositiveEnemyHurt ==
    /\ input'.cmd = "enemy-hurt"
    /\ input'.amount > 0
    /\ input'.name \in DOMAIN state.enemies

\* C24: an enemy-hurt with a positive amount leaves hp = max(0, hp - amount),
\* never negative; the status becomes dead on the call that brings hp to 0,
\* the only call that reports killed; a positive amount on a dead enemy is
\* rejected and changes nothing.
C24_EnemyHurtFloor ==
    [][PositiveEnemyHurt =>
        LET before == state.enemies[input'.name]
            after == state'.enemies[input'.name]
            left == IF before.hp - input'.amount > 0 THEN before.hp - input'.amount ELSE 0
        IN  IF before.status = "dead"
            THEN ~result'.ok /\ ~result'.killed /\ state' = state
            ELSE /\ result'.ok
                 /\ after.hp = left
                 /\ after.hp >= 0
                 /\ (after.status = "dead") = (left = 0)
                 /\ result'.killed = (left = 0)]_vars

\* the Rat, down to 5 hp, is killed by a hit of 10 and left at 0 hp
C24_Witness ==
    /\ input.cmd = "enemy-hurt"
    /\ input.name = "Rat"
    /\ input.amount = 10
    /\ result.killed
    /\ result.hp_before = 5
    /\ result.hp_after = 0
    /\ state.enemies["Rat"].status = "dead"

(***************************************************************************)
(* Enemy attacks: enemies of every attack skill that enemy-add accepts,    *)
(* attacking one survivor on the third day of chapter 1.                   *)
(***************************************************************************)
\* a template, a custom enemy at each end of the attack-skill range, and a
\* custom enemy whose damage expression has zero-sided dice
AttackArgs ==
    { TemplateArgs("Radroach"),
      CustomArgs("Sniper", 10, Dmg(2, 6), 20, "none"),
      CustomArgs("Clumsy", 5, Dmg(1, 6), 1, "none"),
      CustomArgs("Ghost", 5, Dmg(2, 0), 1, "none") }

Attackers == {"Radroach", "Sniper", "Clumsy", "Ghost"}

\* d20 rolls: the critical, the Radroach's skill and the roll above it, the
\* highest non-fumble and the fumble
D20Rolls == {1, 8, 9, 19, 20}

\* the outcomes of roll_dice(count, sides) this model follows: every die
\* shows 1 or its highest face; nothing was rolled when the dice have no face
DamageRolls(damage) ==
    IF damage.sides < 1 THEN {<<>>}
    ELSE [1..damage.count -> {1, damage.sides}]

InitAttack ==
    /\ state = [SoloParty EXCEPT !.turn = 2 * DayTurns]
    /\ input = [cmd |-> "load"]
    /\ result = NoResult

AttackAdd ==
    \E args \in AttackArgs :
        LET out == cmd_enemy_add(state, args)
        IN  /\ state' = out.state
            /\ result' = out.result
            /\ input' = [cmd |-> "enemy-add", args |-> args, before |-> state]

Attack ==
    \E enemy \in Attackers, roll \in D20Rolls :
        /\ HasEnemy(state, enemy)
        /\ \E dice \in DamageRolls(state.enemies[enemy].damage) :
              LET out == cmd_enemy_attack(state, enemy, "Jake", roll, dice)
              IN  /\ state' = out.state
                  /\ result' = out.result
                  /\ input' = [cmd |-> "enemy-attack", enemy |-> enemy, name |-> "Jake",
                               roll |-> roll, before |-> state]

NextAttack == AttackAdd \/ Attack

SpecAttack == InitAttack /\ [][NextAttack]_vars

\* C25: enemy-attack hits iff the d20 roll is at most attack_skill and is not
\* 20; a roll of 1 always hits and is critical (damage = sum of the damage
\* dice + the number of damage dice) for every enemy that enemy-add can
\* create; a roll of 20 always misses, even at attack_skill 20; a non-critical
\* hit deals exactly the sum of the damage dice.
C25_AttackResolution ==
    input.cmd = "enemy-attack" =>
        LET enemy == input.before.enemies[input.enemy]
        IN  /\ result.hit = (input.roll <= enemy.attack_skill /\ input.roll # 20)
            /\ input.roll = 1 =>
                  /\ result.hit /\ result.critical
                  /\ result.total_damage
                         = SeqSum(result.damage_dice) + enemy.damage.count
            /\ input.roll = 20 => ~result.hit
            /\ result.hit /\ ~result.critical =>
                  result.total_damage = SeqSum(result.damage_dice)

\* the attack resolution of C25 for enemies whose damage dice have a face
C25_AttackResolutionRollable ==
    input.cmd = "enemy-attack" /\ input.before.enemies[input.enemy].damage.sides >= 1 =>
        LET enemy == input.before.enemies[input.enemy]
        IN  /\ result.hit = (input.roll <= enemy.attack_skill /\ input.roll # 20)
            /\ input.roll = 1 =>
                  /\ result.hit /\ result.critical
                  /\ result.total_damage
                         = SeqSum(result.damage_dice) + enemy.damage.count
            /\ input.roll = 20 => ~result.hit
            /\ result.hit /\ ~result.critical =>
                  result.total_damage = SeqSum(result.damage_dice)

\* the player carries an effect named Incapacitated
Downed(player) ==
    \E i \in 1..Len(player.status_effects) : player.status_effects[i].name = "Incapacitated"

\* C26: a hitting enemy-attack leaves the target at max(0, hp - damage) and
\* attaches Incapacitated (remaining 3) exactly when the hp crosses from above
\* 0 to 0 and the target carries none; a miss or fumble changes nothing in
\* the target.
C26_AttackDamage ==
    [][input'.cmd = "enemy-attack" /\ result'.ok =>
        LET before == state.players[input'.name]
            after == state'.players[input'.name]
            left == IF before.hp - result'.total_damage > 0
                    THEN before.hp - result'.total_damage ELSE 0
            crossed == before.hp > 0 /\ left = 0
        IN  IF result'.hit
            THEN /\ after.hp = left
                 /\ after.status_effects =
                        IF crossed /\ ~Downed(before)
                        THEN Append(before.status_effects, Incapacitated)
                        ELSE before.status_effects
            ELSE after = before]_vars

(***************************************************************************)
(* get_effective_special applied to the survivors of a party at radiation  *)
(* levels on both sides of every tier threshold, with the effects that     *)
(* chems leave.                                                            *)
(***************************************************************************)
RadSamples == {0, 199, 200, 399, 400, 599, 600, 799, 800, 999, 1000, 1001}

\* the effect a chem leaves on use
ChemEffect(item) ==
    Effect(CHEM_EFFECTS[item].effect, CHEM_EFFECTS[item].duration,
           CHEM_EFFECTS[item].stat_mods)

EffectLists ==
    { <<>>,
      <<ChemEffect("Buffout")>>,
      <<ChemEffect("Buffout"), ChemEffect("Buffout")>>,
      <<ChemEffect("Buffout"), ChemEffect("Psycho")>>,
      <<ChemEffect("Jet"), Incapacitated>>,
      <<ChemEffect("Mentats"), ChemEffect("Mentats"), ChemEffect("Mentats")>> }

InitSpecial ==
    /\ state \in {[FullParty EXCEPT !.players[n].rads = r,
                                    !.players[n].status_effects = effects] :
                    n \in PlayerNames, r \in RadSamples, effects \in EffectLists}
    /\ input = [cmd |-> "load"]
    /\ result = NoResult

EvaluateSpecial ==
    \E name \in PlayerNames :
        /\ state' = state
        /\ input' = [cmd |-> "get_effective_special", name |-> name]
        /\ result' = [cmd |-> "get_effective_special",
                      effective |-> get_effective_special(state.players[name]),
                      radiation |-> RadiationModifiers(state.players[name])]

NextSpecial == EvaluateSpecial

SpecSpecial == InitSpecial /\ [][NextSpecial]_vars

\* the radiation tiers whose threshold rads meets
TiersMet(rads) == {i \in 1..Len(RAD_PENALTIES) : rads >= RAD_PENALTIES[i].threshold}

\* the delta of the tier with the highest threshold among those met, 0 if none
SelectedTierDelta(rads, attr) ==
    IF TiersMet(rads) = {} THEN 0
    ELSE LET top == CHOOSE i \in TiersMet(rads) :
                       \A j \in TiersMet(rads) :
                           RAD_PENALTIES[j].threshold <= RAD_PENALTIES[i].threshold
         IN  IF attr \in DOMAIN RAD_PENALTIES[top].penalties
             THEN RAD_PENALTIES[top].penalties[attr] ELSE 0

\* the deltas of the 1000 tier
Lethal == [STR |-> -4, PER |-> -3, END |-> -4, CHA |-> 0, INT |-> 0, AGI |-> -3, LCK |-> -3]

\* C27: for every rads value the effective attributes receive the deltas of
\* exactly one radiation tier, the one with the highest threshold (1000, 800,
\* 600, 400, 200) that rads meets, and none below 200; at exactly 1000 rads
\* only the 1000 tier's deltas apply.
C27_OneRadiationTier ==
    result.cmd = "get_effective_special" =>
        LET rads == state.players[input.name].rads
        IN  /\ {RAD_PENALTIES[i].threshold : i \in 1..Len(RAD_PENALTIES)}
                   = {1000, 800, 600, 400, 200}
            /\ \A attr \in SPECIAL_ATTRS :
                  result.radiation[attr] = SelectedTierDelta(rads, attr)
            /\ rads < 200 => \A attr \in SPECIAL_ATTRS : result.radiation[attr] = 0
            /\ rads = 1000 => \A attr \in SPECIAL_ATTRS : result.radiation[attr] = Lethal[attr]

\* Sarah at exactly 1000 rads: END falls by 4, not by the 11 of all five tiers
C27_Witness ==
    /\ result.cmd = "get_effective_special"
    /\ input.name = "Sarah"
    /\ state.players["Sarah"].rads = 1000
    /\ state.players["Sarah"].status_effects = <<>>
    /\ result.radiation["END"] = -4
    /\ result.effective["END"] = 2

\* sum of the modifiers the effects carry for the attribute
RECURSIVE ModifierSum(_, _)
ModifierSum(effects, attr) ==
    IF effects = <<>> THEN 0
    ELSE (IF attr \in DOMAIN effects[1].stat_mods THEN effects[1].stat_mods[attr] ELSE 0)
             + ModifierSum(Tail(effects), attr)

Clamp(x, lo, hi) == IF x < lo THEN lo ELSE IF x > hi THEN hi ELSE x

\* C28: every effective attribute is clamp(base + delta of the selected
\* radiation tier + sum of the stat modifiers of all active effects, 1, 10):
\* modifiers stack, the clamp is applied once after the sum, and the value
\* lies in 1..10.
C28_EffectiveSpecial ==
    result.cmd = "get_effective_special" =>
        LET player == state.players[input.name]
        IN  \A attr \in SPECIAL_ATTRS :
                /\ result.effective[attr]
                       = Clamp(player.special[attr]
                               + SelectedTierDelta(player.rads, attr)
                               + ModifierSum(player.status_effects, attr), 1, 10)
                /\ result.effective[attr] \in 1..10

\* Jake (STR 4, END 5) at 1000 rads with one Buffout: STR is 4 - 4 + 3 = 3,
\* where a clamp after the radiation delta would give 4
C28_Witness ==
    /\ result.cmd = "get_effective_special"
    /\ input.name = "Jake"
    /\ state.players["Jake"].rads = 1000
    /\ state.players["Jake"].status_effects = <<ChemEffect("Buffout")>>
    /\ result.effective["STR"] = 3
    /\ result.effective["END"] = 4

(***************************************************************************)
(* The commands that validate before they write: set, turn, enemy-add,     *)
(* enemy-hurt, enemy-attack and check, run with arguments they accept and  *)
(* arguments they refuse.                                                  *)
(***************************************************************************)
CommandSetInputs ==
    { [cmd |-> "set", field |-> "chapter", value |-> 0],
      [cmd |-> "set", field |-> "chapter", value |-> 7],
      [cmd |-> "set", field |-> "mode", value |-> "combat"],
      [cmd |-> "set", field |-> "mode", value |-> "stealth"],
      [cmd |-> "set", field |-> "colour", value |-> "red"] }

\* a template, a template above the tier ceiling, an unknown template, a
\* custom enemy with zero-sided damage dice and one with no hp
CommandAddArgs ==
    { TemplateArgs("Radroach"), TemplateArgs("Deathclaw"), TemplateArgs("Dragon"),
      CustomArgs("Ghost", 5, Dmg(2, 0), 1, "none"),
      CustomArgs("Husk", 0, Dmg(1, 6), 10, "none") }

\* the enemies that are hurt and that attack
CommandEnemies == {"Ghost", "Nobody"}

CommandTargets == {"Jake", "Nobody"}

\* the critical and the fumble
CommandRolls == {1, 20}

\* a difficulty no roll of two dice exceeds
HardCheck == 5

CommandSpends == {0, 1}

\* the outcome of roll_dice(count, sides) these runs follow: every die shows
\* its highest face; nothing was rolled when the dice have no face
HighRolls(damage) ==
    IF damage.sides < 1 THEN {<<>>}
    ELSE {[i \in 1..damage.count |-> damage.sides]}

\* the check outcomes these runs follow: all dice show the same face
SameFaces(dice) == \A i \in 1..Len(dice) : dice[i] = dice[1]

InitCommands ==
    /\ state = SoloParty
    /\ input = [cmd |-> "init"]
    /\ result = NoResult

CommandSet ==
    \E in \in CommandSetInputs : Step(cmd_set(state, in.field, in.value), in)

CommandTurn ==
    /\ state.turn < MaxTurn
    /\ state.combat_round < MaxRound
    /\ \E e \in EventRolls :
          Step(cmd_turn(state, WeatherTotal, e), [cmd |-> "turn"])

CommandEnemyAdd ==
    \E args \in CommandAddArgs :
        Step(cmd_enemy_add(state, args), [cmd |-> "enemy-add", args |-> args])

CommandEnemyHurt ==
    \E name \in CommandEnemies :
        Step(cmd_enemy_hurt(state, name, KillingBlow),
             [cmd |-> "enemy-hurt", name |-> name, amount |-> KillingBlow])

CommandEnemyAttack ==
    \E enemy \in CommandEnemies, target \in CommandTargets, roll \in CommandRolls :
        \E dice \in IF HasEnemy(state, enemy)
                    THEN HighRolls(state.enemies[enemy].damage) ELSE {<<>>} :
            Step(cmd_enemy_attack(state, enemy, target, roll, dice),
                 [cmd |-> "enemy-attack", enemy |-> enemy, name |-> target, roll |-> roll])

CommandCheck ==
    \E name \in CommandTargets, ap_spend \in CommandSpends :
        \E out \in cmd_check(state, <<name>>, "PER", "Lockpick", HardCheck, ap_spend) :
            /\ SameFaces(out.result.dice)
            /\ Step(out, [cmd |-> "check", name |-> name, ap_spend |-> ap_spend])

NextCommands ==
    \/ CommandSet
    \/ CommandTurn
    \/ CommandEnemyAdd
    \/ CommandEnemyHurt
    \/ CommandEnemyAttack
    \/ CommandCheck

SpecCommands == InitCommands /\ [][NextCommands]_vars

\* the step ends in an error payload of one of the six commands
ErrorPayload ==
    /\ result'.cmd \in {"check", "enemy-add", "enemy-hurt", "enemy-attack", "turn", "set"}
    /\ result'.error # ""
    /\ ~result'.ok
    /\ ~result'.unstructured

\* C29: every invocation of check, enemy-add, enemy-hurt, enemy-attack, turn
\* or set that returns an error payload leaves the persisted state identical
\* to the state before it.
C29_ErrorsWriteNothing ==
    [][ErrorPayload => state' = state]_vars

\* a Radroach was refused by the count limit while another enemy stood, and
\* the battlefield is as it was
C29_Witness ==
    /\ input.cmd = "enemy-add"
    /\ input.args = TemplateArgs("Radroach")
    /\ result.error = "Enemy count limit"
    /\ DOMAIN state.enemies = {"Ghost"}

\* C30: enemy-add, enemy-attack, check and turn never end in an unstructured
\* failure: every chapter that `set chapter` stores resolves to a rule tuple,
\* and every damage expression that enemy-add stores can be rolled.
C30_NoUnstructuredFailure ==
    result.cmd \in {"enemy-add", "enemy-attack", "check", "turn"} => ~result.unstructured

(***************************************************************************)
(* The roster: add-player with SPECIAL assignments and tag skills it       *)
(* accepts and ones it refuses.                                            *)
(***************************************************************************)
Special(str, per, end, cha, int, agi, lck) ==
    [STR |-> str, PER |-> per, END |-> end, CHA |-> cha, INT |-> int, AGI |-> agi,
     LCK |-> lck]

\* three assignments that total 40 within 1..10, one below and one above 40,
\* and two that total 40 with a value outside 1..10
SpecialSamples ==
    { Special(4, 7, 5, 4, 8, 6, 6),
      Special(10, 10, 10, 7, 1, 1, 1),
      Special(1, 1, 1, 7, 10, 10, 10),
      Special(5, 5, 5, 5, 5, 5, 9),
      Special(6, 6, 6, 6, 6, 6, 5),
      Special(0, 10, 10, 10, 8, 1, 1),
      Special(11, 5, 5, 5, 5, 5, 4) }

\* two valid choices, a repeated skill and an unknown skill
TagSamples ==
    { <<"Science", "Lockpick", "Small Guns">>,
      <<"Melee", "Sneak", "Speech">>,
      <<"Science", "Science", "Lockpick">>,
      <<"Science", "Juggling", "Lockpick">> }

RosterNames == {"Jake", "Sarah"}

InitRoster ==
    /\ state = cmd_init
    /\ input = [cmd |-> "init"]
    /\ result = NoResult

RosterAdd ==
    \E name \in RosterNames, special \in SpecialSamples, tags \in TagSamples :
        LET out == cmd_add_player(state, name, special, tags)
        IN  /\ state' = out.state
            /\ result' = out.result
            /\ input' = [cmd |-> "add-player", name |-> name, special |-> special,
                         tag_skills |-> tags, before |-> state]

NextRoster == RosterAdd

SpecRoster == InitRoster /\ [][NextRoster]_vars

\* each of the seven values is in 1..10 and they sum to exactly 40
ValidSpecial(special) ==
    /\ \A a \in {"STR", "PER", "END", "CHA", "INT", "AGI", "LCK"} : special[a] \in 1..10
    /\ special["STR"] + special["PER"] + special["END"] + special["CHA"]
           + special["INT"] + special["AGI"] + special["LCK"] = 40

\* hp, max_hp and skills are those of a freshly created player
WellFormed(player) ==
    /\ ValidSpecial(player.special)
    /\ player.hp = player.special["END"] * 10
    /\ player.max_hp = player.special["END"] * 10
    /\ Cardinality({player.tag_skills[i] : i \in 1..Len(player.tag_skills)}) = 3
    /\ Len(player.tag_skills) = 3
    /\ \A sk \in DOMAIN player.skills :
          player.skills[sk]
              = IF \E i \in 1..3 : player.tag_skills[i] = sk THEN 2 ELSE 0
    /\ Cardinality({sk \in DOMAIN player.skills : player.skills[sk] = 2}) = 3

\* C31: add-player creates a player only if each SPECIAL value is in 1..10 and
\* they sum to 40; any other assignment is rejected and no player is added; so
\* every player created has SPECIAL sum 40, hp = max_hp = END * 10, and skill
\* level 2 in exactly its three distinct tag skills and 0 elsewhere.
C31_AddPlayerValidation ==
    input.cmd = "add-player" =>
        /\ result.ok => ValidSpecial(input.special)
        /\ ~ValidSpecial(input.special) => ~result.ok /\ state = input.before
        /\ result.ok => /\ input.name \in DOMAIN state.players
                        /\ state.players[input.name].special = input.special
        /\ \A p \in DOMAIN state.players : WellFormed(state.players[p])

\* Sarah joined alone with END 1 and 10 hp
C31_Witness ==
    /\ input.cmd = "add-player"
    /\ input.name = "Sarah"
    /\ result.ok
    /\ state.players["Sarah"].special = Special(1, 1, 1, 7, 10, 10, 10)
    /\ state.players["Sarah"].hp = 10
    /\ "Jake" \notin DOMAIN state.players

(***************************************************************************)
(* util.py: load_state / save_state. Two invocations run against one state *)
(* file with no lock. An invocation loads and computes, copies the file to *)
(* the backup, opens it for writing (which truncates it) and writes its    *)
(* document. The file is a document followed by `tail` entries of stale    *)
(* text that a shorter write left behind.                                  *)
(***************************************************************************)
Invocations == {1, 2}

FileCommands ==
    { [cmd |-> "enemy-add", args |-> TemplateArgs("Radroach")],
      [cmd |-> "enemy-add", args |-> TemplateArgs("Mole Rat")],
      [cmd |-> "set", field |-> "mode", value |-> "combat"] }

\* the command of an invocation applied to the loaded document
Run(c, doc) ==
    IF c.cmd = "enemy-add" THEN cmd_enemy_add(doc, c.args)
    ELSE cmd_set(doc, c.field, c.value)

\* length of the JSON text of a document, in enemy entries
TextSize(doc) == Cardinality(DOMAIN doc.enemies)

FileOf(doc) == [doc |-> doc, empty |-> FALSE, tail |-> 0]

\* open(STATE_FILE, "w")
Truncated == [doc |-> cmd_init, empty |-> TRUE, tail |-> 0]

FileLength(file) == IF file.empty THEN 0 ELSE TextSize(file.doc) + file.tail

\* json.dump from offset 0 over what the file holds at that moment
Overwritten(file, doc) ==
    [doc |-> doc, empty |-> FALSE, tail |-> Max(0, FileLength(file) - TextSize(doc))]

\* json.load accepts the file
Parses(file) == ~file.empty /\ file.tail = 0

InitFile ==
    /\ state \in {[file |-> FileOf(cmd_init),
                   backup |-> Truncated,
                   proc |-> [p \in Invocations |->
                                [pc |-> "start", cmd |-> IF p = 1 THEN c1 ELSE c2,
                                 local |-> cmd_init]]] :
                     c1 \in FileCommands, c2 \in FileCommands}
    /\ input = [cmd |-> "file", log |-> <<>>]
    /\ result = NoResult

Logged(p, event) == [cmd |-> "file", log |-> Append(input.log, <<p, event>>)]

\* require_state and the command up to its save_state call
FileLoad(p) ==
    /\ state.proc[p].pc = "start"
    /\ input' = Logged(p, "load")
    /\ IF ~Parses(state.file)
       THEN /\ state' = [state EXCEPT !.proc[p].pc = "crashed"]
            /\ result' = Crash(cmd_init, state.proc[p].cmd.cmd, "JSONDecodeError").result
       ELSE LET out == Run(state.proc[p].cmd, state.file.doc)
            IN  /\ result' = out.result
                /\ state' = [state EXCEPT
                                !.proc[p].pc = IF out.result.ok THEN "loaded" ELSE "failed",
                                !.proc[p].local = out.state]

\* shutil.copy2(STATE_FILE, backup)
FileBackup(p) ==
    /\ state.proc[p].pc = "loaded"
    /\ input' = Logged(p, "backup")
    /\ result' = result
    /\ state' = [state EXCEPT !.backup = state.file, !.proc[p].pc = "backed"]

\* open(STATE_FILE, "w")
FileOpen(p) ==
    /\ state.proc[p].pc = "backed"
    /\ input' = Logged(p, "open")
    /\ result' = result
    /\ state' = [state EXCEPT !.file = Truncated, !.proc[p].pc = "opened"]

\* json.dump and close
FileWrite(p) ==
    /\ state.proc[p].pc = "opened"
    /\ input' = Logged(p, "write")
    /\ result' = result
    /\ state' = [state EXCEPT !.file = Overwritten(state.file, state.proc[p].local),
                              !.proc[p].pc = "done"]

NextFile ==
    \E p \in Invocations : FileLoad(p) \/ FileBackup(p) \/ FileOpen(p) \/ FileWrite(p)

SpecFile == InitFile /\ [][NextFile]_vars

\* position of the event of invocation p in the log, 0 when it has not happened
At(p, event) ==
    IF \E i \in 1..Len(input.log) : input.log[i] = <<p, event>>
    THEN CHOOSE i \in 1..Len(input.log) : input.log[i] = <<p, event>>
    ELSE 0

BothSaved == \A p \in Invocations : state.proc[p].pc = "done"

\* both invocations loaded before either began to save
Overlapped == \A p, q \in Invocations : At(p, "load") < At(q, "backup")

\* one invocation finished its save before the other loaded
Sequential == \E p, q \in Invocations : p # q /\ At(p, "write") < At(q, "load")

LastWriter == CHOOSE p \in Invocations : \A q \in Invocations : At(q, "write") <= At(p, "write")

FirstWriter == CHOOSE p \in Invocations : \A q \in Invocations : At(p, "write") <= At(q, "write")

\* C32: when two invocations overlap (both load before either saves) the
\* final persisted state is exactly the one the last writer wrote and the
\* earlier writer's update is lost; when they do not overlap both updates are
\* in the final state.
C32_LastWriterWins ==
    BothSaved =>
        /\ Overlapped => state.file = FileOf(state.proc[LastWriter].local)
        /\ Sequential =>
              state.file = FileOf(Run(state.proc[LastWriter].cmd,
                                      state.proc[FirstWriter].local).state)

\* the two cases of C32 for saves that do not run into each other: the first
\* writer's write is over before the second writer opens the file
C32_LastWriterWinsSerialSaves ==
    BothSaved /\ At(FirstWriter, "write") < At(LastWriter, "open") =>
        /\ Overlapped => state.file = FileOf(state.proc[LastWriter].local)
        /\ Sequential =>
              state.file = FileOf(Run(state.proc[LastWriter].cmd,
                                      state.proc[FirstWriter].local).state)


(***************************************************************************)
(* The dice cap of the check command, under SpecCheck.                     *)
(***************************************************************************)
\* a check of one to four participants whose AP spend, within 0..3, pushes
\* the pool past 5 dice
OverCap(st, in) ==
    /\ in.player_names # <<>>
    /\ Len(in.player_names) + 1 <= 5
    /\ in.difficulty >= 0
    /\ in.ap_spend \in 0..3
    /\ Len(in.player_names) + 1 + in.ap_spend > 5

\* C33 as stated: when ap_spend would push the dice pool past 5 the check is
\* not rejected; it rolls 5 dice and reports ap_spent = 5 - base dice.
C33_SilentTruncation ==
    (result.cmd = "check" /\ OverCap(state, input)) =>
        /\ result.ok
        /\ result.pool = 5
        /\ Len(result.dice) = 5
        /\ result.ap_spent = 5 - (Len(input.player_names) + 1)

\* C33 amended: when ap_spend would push the dice pool past 5 the check is
\* rejected with the cap error and rolls no die; an accepted check rolls
\* exactly base dice + ap_spend dice, at most 5, and reports the whole spend.
C33_OverCapRejected ==
    /\ (result.cmd = "check" /\ OverCap(state, input)) =>
          /\ ~result.ok
          /\ result.error =
                IF 5 - (Len(input.player_names) + 1) <= 0
                THEN "Cannot spend AP" ELSE "Max AP"
          /\ result.dice = <<>>
    /\ AcceptedCheck(result) =>
          /\ result.pool = Len(input.player_names) + 1 + input.ap_spend
          /\ result.pool <= 5
          /\ Len(result.dice) = result.pool
          /\ result.ap_spent = input.ap_spend

\* three participants asked for 2 AP although only one die is left
C33_Witness ==
    /\ result.cmd = "check"
    /\ Len(input.player_names) = 3
    /\ input.ap_spend = 2
    /\ input.difficulty >= 0
    /\ result.error = "Max AP"
    /\ result.dice = <<>>


(***************************************************************************)
(* Enemies and the mode, under Spec.                                       *)
(***************************************************************************)
SuccessfulEnemyAdd == input'.cmd = "enemy-add" /\ result'.ok

\* C34: a successful enemy-add issued in exploration mode leaves the game in
\* combat mode.
C34_AddEntersCombat ==
    [][ (SuccessfulEnemyAdd /\ get_mode(state) = "exploration")
        => get_mode(state') = "combat" ]_vars


\* C35: every enemy has 0 <= hp <= max_hp, and its status is dead exactly
\* when its hp is 0.
C35_EnemyHpStatus ==
    \A e \in DOMAIN state.enemies :
        LET enemy == state.enemies[e]
        IN  /\ 0 <= enemy.hp
            /\ enemy.hp <= enemy.max_hp
            /\ enemy.status \in {"alive", "dead"}
            /\ (enemy.status = "dead") <=> (enemy.hp = 0)

\* a dead enemy healed back to part of its hp
C35_Witness ==
    /\ result.cmd = "enemy-hurt"
    /\ result.ok
    /\ input.amount < 0
    /\ result.hp_before = 0
    /\ state.enemies[input.name].status = "alive"
    /\ state.enemies[input.name].hp > 0
    /\ state.enemies[input.name].hp < state.enemies[input.name].max_hp


\* the count rule of the chapter day: one alive enemy on the first day, two
\* on the second, any number afterwards
WithinCountLimit(st) ==
    /\ TurnsIn(st) \div 24 < 1 => AliveCount(st) <= 1
    /\ TurnsIn(st) \div 24 = 1 => AliveCount(st) <= 2

\* C36: with the chapter, chapter_start_turn and the players fixed, the hp of
\* the alive enemies is at most the effective budget and the number of alive
\* enemies is at most the count limit of the chapter day.
C36_EncounterInvariant ==
    /\ AliveHpSum(state, DOMAIN state.enemies) <= ClaimedBudget(state)
    /\ WithinCountLimit(state)


(***************************************************************************)
(* The two leader selections of the check command, under SpecCheck.        *)
(***************************************************************************)
\* the leader of the evaluator: the first of the sorted participants
EvaluatorLeader(st, in) ==
    SortedParticipants(st, in.player_names, in.attr, in.skill_name)[1].name

\* the check reached the AP test: the arguments and the dice cap are in order
ReachesLeader(st, in) ==
    /\ in.player_names # <<>>
    /\ in.difficulty >= 0
    /\ in.ap_spend \in 0..3
    /\ Len(in.player_names) + 1 + in.ap_spend <= 5

\* C37: for every participant list, ties in target and repeated names
\* included, the player whose AP is checked, debited and credited by the check
\* command is the player the evaluator treats as leader and against whose
\* target the leader dice are judged.
C37_OneLeader ==
    [][ (result'.cmd = "check" /\ ReachesLeader(state, input)) =>
        LET leader == EvaluatorLeader(state, input)
        IN  /\ ~result'.ok <=> (input.ap_spend > 0 /\ state.players[leader].ap < input.ap_spend)
            /\ result'.ok =>
                  /\ result'.leader = leader
                  /\ result'.leader_target = TargetOf(state, leader, input.attr, input.skill_name)
                  /\ result'.leader_successes = LeaderOwn(state, input, result')
                  /\ result'.ap_before = state.players[leader].ap
                  /\ state'.players[leader].ap =
                        state.players[leader].ap - input.ap_spend + result'.excess_ap
                  /\ \A p \in DOMAIN state.players :
                        p # leader => state'.players[p].ap = state.players[p].ap ]_vars

\* Sarah and Jake tie, Sarah is listed twice and first: she pays the AP, and
\* Jake, who holds none, is left alone
C37_Witness ==
    /\ AcceptedCheck(result)
    /\ input.player_names = <<"Sarah", "Jake", "Sarah">>
    /\ TargetOf(state, "Sarah", input.attr, input.skill_name)
          = TargetOf(state, "Jake", input.attr, input.skill_name)
    /\ input.ap_spend = 1
    /\ result.leader = "Sarah"
    /\ result.ap_before = 3
    /\ state.players["Sarah"].ap = 2 + result.excess_ap
    /\ state.players["Jake"].ap = 0


(***************************************************************************)
(* The Incapacitated effect over time, under SpecDowned.                   *)
(***************************************************************************)
\* number of Incapacitated entries in a player's status_effects
IncapacitatedCount(player) ==
    Cardinality({i \in 1..Len(player.status_effects) :
                    player.status_effects[i].name = "Incapacitated"})

\* C38: through hurt, heal, enemy-attack, use-item, rest and turn, without a
\* manual effect add, every player carries at most one Incapacitated effect.
C38_AtMostOneIncapacitated ==
    \A p \in DOMAIN state.players : IncapacitatedCount(state.players[p]) <= 1

\* an attack hits a survivor who is already down and already Incapacitated
C38_Witness ==
    /\ result.cmd = "enemy-attack"
    /\ result.hit
    /\ result.hp_before = 0
    /\ result.hp_after = 0
    /\ IncapacitatedCount(state.players["Jake"]) = 1
    /\ state.players["Jake"].status_effects[1].remaining < 3


(***************************************************************************)
(* Specification SpecDeath: one survivor and one enemy over six turns of   *)
(* exploration. `input.reported` keeps the survivors a turn has reported   *)
(* dead whose hp has not risen above 0 since.                              *)
(***************************************************************************)
MaxAdvance == 6

DeathHurtAmounts == {20, 50}

DeathHealAmounts == {20}

\* the weather roll of every turn
DeathWeatherRolls == {1}

\* the event roll of every turn: no random event
DeathEventRolls == {11}

InitDeath ==
    /\ state = cmd_enemy_add(SoloParty, TemplateArgs("Mole Rat")).state
    /\ input = [cmd |-> "init", reported |-> {}]
    /\ result = NoResult

\* the survivors reported dead and still at 0 hp once the command has run
StillReported(out) ==
    {p \in input.reported \cup Range(out.result.deaths) : out.state.players[p].hp <= 0}

DeathStep(out, cmdname) ==
    Step(out, [cmd |-> cmdname, reported |-> StillReported(out)])

DeathHurt ==
    \E amount \in DeathHurtAmounts : DeathStep(cmd_hurt(state, "Jake", amount), "hurt")

DeathHeal ==
    \E amount \in DeathHealAmounts : DeathStep(cmd_heal(state, "Jake", amount), "heal")

DeathAttack ==
    \E roll \in DownedAttackRolls :
    \E dice \in [1..state.enemies["Mole Rat"].damage.count -> AttackDamageFaces] :
        DeathStep(cmd_enemy_attack(state, "Mole Rat", "Jake", roll, dice), "enemy-attack")

DeathTurn ==
    /\ state.turn < MaxAdvance
    /\ \E w \in DeathWeatherRolls, e \in DeathEventRolls :
          DeathStep(cmd_turn(state, w, e), "turn")

NextDeath == DeathHurt \/ DeathHeal \/ DeathAttack \/ DeathTurn

SpecDeath == InitDeath /\ [][NextDeath]_vars

\* C39: once a turn has reported a player's death, no later advance reports
\* that player's death again unless the player's hp rose above 0 in between.
C39_DeathReportedOnce ==
    [][ input'.cmd = "turn" =>
            \A p \in input.reported : p \notin Range(result'.deaths) ]_vars


(***************************************************************************)
(* Enemy names, under SpecEncounter.                                       *)
(***************************************************************************)
\* C40: a successful enemy-add increases the number of enemies by exactly
\* one and leaves every enemy that was already present unchanged; it never
\* replaces an existing enemy of the same name.
C40_AddNeverReplaces ==
    (input.cmd = "enemy-add" /\ result.ok) =>
        /\ Cardinality(DOMAIN state.enemies)
              = Cardinality(DOMAIN input.before.enemies) + 1
        /\ \A e \in DOMAIN input.before.enemies :
              /\ e \in DOMAIN state.enemies
              /\ state.enemies[e] = input.before.enemies[e]

====
